---- MODULE Spec2Model ----
(***************************************************************************)
(* Chunk orchestration pipeline of TM-IntelliMind: the progressive         *)
(* transcription session (core/progressive_transcription.py), the chunk    *)
(* transcriber with its timeout-bounded invoker and the overlap-aware      *)
(* reassembly (core/chunk_transcription.py).                               *)
(*                                                                         *)
(* Texts are sequences of words (a text is the single-space join of its    *)
(* words, so joining parts with ' ' is concatenation of word sequences and *)
(* the empty string is the empty sequence).  Time is abstract: the bounded *)
(* wait of the invoker (Thread.join, a monotonic clock) may expire at any  *)
(* step at which the worker has not finished, and the watchdog (time.time  *)
(* and the rows' updated_at, the wall clock) may find any in-flight entry  *)
(* or 'processing' row overdue.                                            *)
(***************************************************************************)
EXTENDS Integers, Sequences, FiniteSets, TLC

\* ------------------------------------------------------------------ bounds
NumChunks == 2
MaxStops == 1
MaxReclaims == 2

\* ------------------------------------------------------- program constants
MaxRetries == 1
MaxConcurrentTranscriptions == 1
ChunkDuration == 30
OverlapDuration == 5
MinWordsForOverlap == 5

ChunkIds == 0 .. (NumChunks - 1)
Attempts == ChunkIds \X (0 .. MaxRetries)

\* ------------------------------------------------------------------- texts
\* Words are numbers; a negative word -w is the capitalised spelling of the
\* word w, so that str.lower() is not the identity.
Lower(w) == IF w < 0 THEN 0 - w ELSE w

Min2(a, b) == IF a <= b THEN a ELSE b
Min3(a, b, c) == Min2(a, Min2(b, c))
Max2(a, b) == IF a >= b THEN a ELSE b

Suffix(s, n) == SubSeq(s, Len(s) - n + 1, Len(s))
Prefix(s, n) == SubSeq(s, 1, n)
DropFirst(s, n) == SubSeq(s, n + 1, Len(s))

\* sum(1 for a, b in zip(p, c) if a.lower() == b.lower())
LowerMatches(p, c) == Cardinality({k \in 1 .. Len(p) : Lower(p[k]) = Lower(c[k])})

\* The test made for candidate length i in the loop of remove_overlap_text.
OverlapMatchAt(prev, cur, i) ==
    \/ Suffix(prev, i) = Prefix(cur, i)
    \/ LowerMatches(Suffix(prev, i), Prefix(cur, i)) * 10 >= 7 * i

\* int(overlap_duration * 2.5), the overlap given in tenths of a second.
EstimatedOverlapWords(overlapTenths) == (overlapTenths * 25) \div 100

\* The last i in 1..max_check that matches (each match overwrites the former).
BestMatchLength(prev, cur, maxCheck) ==
    LET hits == {i \in 1 .. maxCheck : OverlapMatchAt(prev, cur, i)}
    IN  IF hits = {} THEN 0 ELSE CHOOSE i \in hits : \A j \in hits : j <= i

\* The word-count guard written with <= instead of <.
RemoveOverlapTextMinInclusive(prev, cur, overlapTenths) ==
    IF prev = <<>> \/ cur = <<>> \/ overlapTenths <= 0 THEN cur
    ELSE IF Len(prev) <= MinWordsForOverlap \/ Len(cur) <= MinWordsForOverlap THEN cur
    ELSE IF EstimatedOverlapWords(overlapTenths) <= 0 THEN cur
    ELSE LET maxCheck == Min3(EstimatedOverlapWords(overlapTenths) + 5,
                              Len(prev) \div 2, Len(cur) \div 2)
             best == BestMatchLength(prev, cur, maxCheck)
         IN  IF best > 0 THEN DropFirst(cur, best) ELSE cur

RemoveOverlapText(prev, cur, overlapTenths) ==
    IF prev = <<>> \/ cur = <<>> \/ overlapTenths <= 0 THEN cur
    ELSE IF Len(prev) < MinWordsForOverlap \/ Len(cur) < MinWordsForOverlap THEN cur
    ELSE IF EstimatedOverlapWords(overlapTenths) <= 0 THEN cur
    ELSE LET maxCheck == Min3(EstimatedOverlapWords(overlapTenths) + 5,
                              Len(prev) \div 2, Len(cur) \div 2)
             best == BestMatchLength(prev, cur, maxCheck)
         IN  IF best > 0 THEN DropFirst(cur, best) ELSE cur

\* The recogniser's text for chunk i: six words, the last two of chunk i being
\* the first two of chunk i + 1 (the speech inside the overlap window).
ChunkText(i) == [k \in 1 .. 6 |-> 4 * i + k]

\* Time windows of the chunk records, in tenths of a second.
StartTime(i) == 10 * i * (ChunkDuration - OverlapDuration)
EndTime(i) == StartTime(i) + 10 * ChunkDuration

\* ------------------------------------------------------------------- state
VARIABLES
    created,            \* number of AudioChunk rows created so far (indices 0..created-1)
    chunking_complete,  \* ProgressiveTranscriber.chunking_complete
    db,                 \* the AudioChunk rows: chunk index -> [status, text]
    obj,                \* the in-memory AudioChunk objects, one per queue entry
    cpc,                \* position of the transcribe_chunk thread of each queue entry
    wpc,                \* transcribe_worker thread of each queue entry: "idle" or "run"
    queue,              \* transcription_queue (FIFO of objects)
    active_threads,     \* active_threads / thread_start_times, keys in insertion order
    completed_chunks,   \* keys of completed_chunks
    retry_counts,       \* retry_counts (absent = 0)
    is_running,
    should_stop,
    transcript,         \* the Transcript row: [text, status, progress]
    loops,              \* number of _process_queue threads at each position
    stops,              \* number of stop() calls made
    dispatches,         \* number of times each chunk was handed to a thread
    reclaims            \* number of stuck chunks the watchdog has handled

\* The Transcript object the session works on, and the updates that raised.
VARIABLES
    transcript_obj,     \* self.meeting.transcript, the object cached on the session's meeting
    update_failures     \* number of _update_progressive_transcript calls that raised inside

reassemblyVars == <<transcript_obj, update_failures>>

\* The fields of the session, and with them the Transcript row.
sessionFields == <<created, chunking_complete, db, obj, cpc, wpc, queue, active_threads,
                   completed_chunks, retry_counts, is_running, should_stop,
                   loops, stops, dispatches, reclaims, reassemblyVars>>

sessionVars == <<sessionFields, transcript>>

\* A call of the reassembly functions of ChunkTranscriber on two chunks.
VARIABLES
    previous_text,      \* text of the first chunk (previous_text)
    current_text,       \* text of the second chunk (current_text)
    following_text,     \* text of a third chunk, '' when the call is on two chunks
    overlap_duration,   \* prev_chunk.end_time - chunk.start_time, in tenths of a second
    text_pc,            \* what has been computed: "idle", "input", "trimmed", ...
    result              \* the text returned by the last call

textVars == <<previous_text, current_text, following_text, overlap_duration, text_pc, result>>

\* A recording handed to the chunker (AudioChunker.chunk_audio_file).
VARIABLES
    file_size,          \* meeting.file_size, in bytes
    audio_duration,     \* what get_audio_duration returns, in seconds (0: no probe succeeded)
    speech_segments,    \* what detect_speech_segments returns: (start, end) pairs, end 0 for None
    config,             \* the AudioChunker's settings
    chunk_segments,     \* the (start_time, end_time) windows returned last
    audio_chunks,       \* the AudioChunk rows created from the windows
    chunker_pc          \* "idle", "input", then the call that has returned

chunkerVars == <<file_size, audio_duration, speech_segments, config,
                 chunk_segments, audio_chunks, chunker_pc>>

\* The requests of the web layer for a recording (core/views.py).
VARIABLES
    create_chunks,      \* create_chunks threads started by upload_audio and not yet run
    run_transcription,  \* the run_transcription thread: [pc, stage]
    starts,             \* number of start_transcription requests made
    progress_response   \* the last response of transcription_progress

uploadVars == <<create_chunks, run_transcription, starts, progress_response>>

\* The class-level registry of sessions (ProgressiveTranscriber).
VARIABLES
    active_transcribers,  \* _active_transcribers: recording id -> session object, 0 for none
    lock,                 \* _lock: the caller holding it, 0 when free
    caller,               \* each calling thread: [pc, op, meeting_id]
    sessions,             \* the session objects constructed: [object, meeting_id, stopped, finished]
    returned,             \* what the calls returned: [meeting_id, cleanups, object]
    cleanups              \* per recording id, the entries deleted by cleanup_transcriber

registryVars == <<active_transcribers, lock, caller, sessions, returned, cleanups>>

\* A transcribe_file call of a remote-API transcriber (ExternalAPITranscriber).
VARIABLES
    provider,           \* the transcriber class: "openai", "assemblyai", "none" before a call
    api_pc,             \* "idle", "attempt", "post", "poll", "returned", "raised"
    attempt,            \* the loop variable of "for attempt in range(max_retries + 1)"
    responses,          \* the requests made so far: [request, status, attempt]
    polls               \* status polls of this attempt answered queued or processing

apiVars == <<provider, api_pc, attempt, responses, polls>>

\* The module-level cache of Whisper models (core/utils.py).
VARIABLES
    model_cache,        \* _model_cache: model size -> instance, 0 for no entry
    whisper_models,     \* the WhisperModel(...) constructions made, by model size
    loaded,             \* the model sizes of which a load has succeeded
    last_call,          \* the last call: [model_size, result], result 0 for a raise
    model_calls         \* number of get_or_create_whisper_model calls made

cacheVars == <<model_cache, whisper_models, loaded, last_call, model_calls>>

\* The performance monitoring of a session and what its loop makes of it.
VARIABLES
    max_concurrent,        \* self.max_concurrent, the constructor's argument
    slow_chunk_count,      \* self.slow_chunk_count
    performance_degraded,  \* self.performance_degraded
    in_flight,             \* len(self.active_threads)
    started,               \* chunks handed to a thread so far
    slow_ended             \* chunks that ended after more than 90 s, completed or failed

monitorVars == <<max_concurrent, slow_chunk_count, performance_degraded,
                 in_flight, started, slow_ended>>

\* The services beside the pipeline of a recording.
serviceVars == <<apiVars, cacheVars, monitorVars>>

\* What no operation on a recording's audio or on the web layer touches.
libraryVars == <<textVars, registryVars, serviceVars>>

\* The state outside the transcription session.
outsideSession == <<textVars, chunkerVars, uploadVars, registryVars, serviceVars>>

vars == <<sessionVars, outsideSession>>

\* error_message of a chunk row: '', the note the watchdog writes with a retry,
\* or a message written together with status failed (the wording of the
\* failure messages is not told apart).
NoError == ""
RetryAfterTimeout == "Retry after timeout"
FailureMessage == "failure"

NoRow == [status |-> "absent", text |-> <<>>, error |-> NoError]
NewRow == [status |-> "pending", text |-> <<>>, error |-> NoError]
NoUpd == [kind |-> "none", text |-> <<>>, progress |-> 0]

Chunks == 0 .. (created - 1)

SessionInit ==
    /\ created = 0
    /\ chunking_complete = FALSE
    /\ db = [i \in ChunkIds |-> NoRow]
    /\ obj = [a \in Attempts |-> NoRow]
    /\ cpc = [a \in Attempts |-> "idle"]
    /\ wpc = [a \in Attempts |-> "idle"]
    /\ queue = <<>>
    /\ active_threads = <<>>
    /\ completed_chunks = {}
    /\ retry_counts = [i \in ChunkIds |-> 0]
    /\ is_running = FALSE
    /\ should_stop = FALSE
    /\ transcript = [text |-> <<>>, status |-> "pending", progress |-> 0]
    /\ loops = [top |-> 0, get |-> 0, finished |-> 0, stopped |-> 0]
    /\ stops = 0
    /\ dispatches = [i \in ChunkIds |-> 0]
    /\ reclaims = 0
    /\ transcript_obj = [text |-> <<>>, status |-> "pending", progress |-> 0]
    /\ update_failures = 0

\* ----------------------------------------------------------------- helpers
ActiveKeys == {active_threads[n][1] : n \in 1 .. Len(active_threads)}

RemoveKey(seq, i) ==
    LET Keep(e) == e[1] # i IN SelectSeq(seq, Keep)

\* dict[key] = value: a new key goes last, an existing key keeps its place.
PutKey(seq, a) ==
    IF \E n \in 1 .. Len(seq) : seq[n][1] = a[1]
    THEN [n \in 1 .. Len(seq) |-> IF seq[n][1] = a[1] THEN a ELSE seq[n]]
    ELSE Append(seq, a)

CountStatus(rows, n, st) == Cardinality({i \in 0 .. (n - 1) : rows[i].status = st})

\* int((completed / total) * 100) if total > 0 else 0
ProgressPercentage(completed, total) ==
    IF total > 0 THEN (completed * 100) \div total ELSE 0

LiveLoops == loops.top + loops.get

\* start(): a thread target=_process_queue unless is_running.
StartEffect ==
    IF is_running
    THEN UNCHANGED <<is_running, should_stop, loops>>
    ELSE /\ is_running' = TRUE
         /\ should_stop' = FALSE
         /\ loops' = [loops EXCEPT !.top = @ + 1]

\* ----------------------------------------------------------------- chunker
\* One turn of the loop of chunk_audio_file: the row is created pending and
\* handed to add_chunk_to_transcription_queue.
CreateChunk ==
    /\ ~chunking_complete
    /\ created < NumChunks
    /\ created' = created + 1
    /\ db' = [db EXCEPT ![created] = NewRow]
    /\ obj' = [obj EXCEPT ![<<created, 0>>] = NewRow]
    /\ queue' = Append(queue, <<created, 0>>)
    /\ StartEffect
    /\ UNCHANGED <<chunking_complete, cpc, wpc, active_threads, completed_chunks, retry_counts, transcript, stops,
                   dispatches, reclaims>>
    /\ UNCHANGED <<reassemblyVars, outsideSession>>

\* The meeting has a transcriber in _active_transcribers: get_or_create_transcriber
\* has run, for the first chunk or for a start.
Registered == created > 0 \/ loops.top + loops.get + loops.finished + loops.stopped > 0

\* mark_chunking_complete: after the last chunk, or from the except branch of
\* chunk_audio_file after any number of chunks.  Without a registered
\* transcriber the call does nothing.
MarkChunkingComplete ==
    /\ Registered
    /\ ~chunking_complete
    /\ chunking_complete' = TRUE
    /\ UNCHANGED <<created, db, obj, cpc, wpc, queue, active_threads,
                   completed_chunks, retry_counts, is_running,
                   should_stop, transcript, loops, stops, dispatches, reclaims>>
    /\ UNCHANGED <<reassemblyVars, outsideSession>>

\* ------------------------------------------------------------ start / stop
Start ==
    /\ ~is_running
    /\ StartEffect
    /\ UNCHANGED <<created, chunking_complete, db, obj, cpc, wpc, queue,
                   active_threads, completed_chunks, retry_counts, transcript, stops, dispatches, reclaims>>
    /\ UNCHANGED <<reassemblyVars, outsideSession>>

Stop ==
    /\ stops < MaxStops
    /\ stops' = stops + 1
    /\ should_stop' = TRUE
    /\ is_running' = FALSE
    /\ UNCHANGED <<created, chunking_complete, db, obj, cpc, wpc, queue,
                   active_threads, completed_chunks, retry_counts, transcript, loops, dispatches, reclaims>>
    /\ UNCHANGED <<reassemblyVars, outsideSession>>

\* ---------------------------------------------------------------- watchdog
\* The rows the database query of _check_stuck_threads can return: status
\* 'processing' and not saved for thread_timeout seconds.  A row whose thread
\* has saved it since its dispatch is stale only if that thread is itself
\* overdue, which the thread-based check covers.
StaleCandidates ==
    {i \in Chunks :
        /\ db[i].status = "processing"
        /\ \A n \in 1 .. Len(active_threads) :
              active_threads[n][1] = i => cpc[active_threads[n]] = "start"}

RECURSIVE SortedSeq(_)
SortedSeq(S) ==
    IF S = {} THEN <<>>
    ELSE LET m == CHOOSE x \in S : \A y \in S : x <= y
         IN  <<m>> \o SortedSeq(S \ {m})

\* stuck_chunks: the overdue keys of thread_start_times in dict order (the
\* oldest p entries), then the stale rows not already listed, in index order.
StuckChunks(p, D) ==
    LET overdue == [n \in 1 .. p |-> active_threads[n][1]]
    IN  overdue \o SortedSeq(D \ {overdue[n] : n \in 1 .. p})

\* The retry test written with <= instead of <.
MayRetryInclusive(retryCount) == retryCount <= MaxRetries

\* retry_count < self.max_retries
MayRetry(retryCount) == retryCount < MaxRetries

\* The loop body putting the chunk to retry at the front of the queue.
HandleStuckRequeueingFirst(ci, st) ==
    LET act == RemoveKey(st.act, ci)
        rc == st.rc[ci]
    IN  IF MayRetry(rc)
        THEN LET fresh == [st.rows[ci] EXCEPT !.status = "pending", !.error = RetryAfterTimeout]
             IN  [act |-> act,
                  rc |-> [st.rc EXCEPT ![ci] = rc + 1],
                  rows |-> [st.rows EXCEPT ![ci] = fresh],
                  objs |-> [st.objs EXCEPT ![<<ci, rc + 1>>] = fresh],
                  q |-> <<<<ci, rc + 1>>>> \o st.q]
        ELSE [act |-> act,
              rc |-> st.rc,
              rows |-> [st.rows EXCEPT ![ci] =
                           [@ EXCEPT !.status = "failed", !.error = FailureMessage]],
              objs |-> st.objs,
              q |-> st.q]

\* The loop body giving a chunk up by emptying the queue as well.
HandleStuckClearingQueue(ci, st) ==
    LET act == RemoveKey(st.act, ci)
        rc == st.rc[ci]
    IN  IF MayRetry(rc)
        THEN LET fresh == [st.rows[ci] EXCEPT !.status = "pending", !.error = RetryAfterTimeout]
             IN  [act |-> act,
                  rc |-> [st.rc EXCEPT ![ci] = rc + 1],
                  rows |-> [st.rows EXCEPT ![ci] = fresh],
                  objs |-> [st.objs EXCEPT ![<<ci, rc + 1>>] = fresh],
                  q |-> Append(st.q, <<ci, rc + 1>>)]
        ELSE [act |-> act,
              rc |-> st.rc,
              rows |-> [st.rows EXCEPT ![ci] =
                           [@ EXCEPT !.status = "failed", !.error = FailureMessage]],
              objs |-> st.objs,
              q |-> <<>>]

\* The body of the loop "for chunk_index in stuck_chunks" for one chunk, on
\* the state st = [act, rc, rows, objs, q].
HandleStuck(ci, st) ==
    LET act == RemoveKey(st.act, ci)
        rc == st.rc[ci]
    IN  IF MayRetry(rc)
        THEN LET fresh == [st.rows[ci] EXCEPT !.status = "pending", !.error = RetryAfterTimeout]
             IN  [act |-> act,
                  rc |-> [st.rc EXCEPT ![ci] = rc + 1],
                  rows |-> [st.rows EXCEPT ![ci] = fresh],
                  objs |-> [st.objs EXCEPT ![<<ci, rc + 1>>] = fresh],
                  q |-> Append(st.q, <<ci, rc + 1>>)]
        ELSE [act |-> act,
              rc |-> st.rc,
              rows |-> [st.rows EXCEPT ![ci] =
                           [@ EXCEPT !.status = "failed", !.error = FailureMessage]],
              objs |-> st.objs,
              q |-> st.q]

RECURSIVE HandleAllStuck(_, _)
HandleAllStuck(stuck, st) ==
    IF stuck = <<>> THEN st
    ELSE HandleAllStuck(Tail(stuck), HandleStuck(Head(stuck), st))

CheckStuckThreads(p, D) ==
    HandleAllStuck(StuckChunks(p, D),
                   [act |-> active_threads, rc |-> retry_counts, rows |-> db,
                    objs |-> obj, q |-> queue])

\* -------------------------------------------------------------------- loop
EffectiveMaxConcurrent == MaxConcurrentTranscriptions

\* len(self.active_threads) >= max_concurrent
AtCapacity(act) == Len(act) >= EffectiveMaxConcurrent

\* _should_finish without its first test (chunking_complete).
ShouldFinishIgnoringChunking ==
    /\ CountStatus(db, created, "pending") = 0
    /\ Len(active_threads) = 0
    /\ CountStatus(db, created, "completed") + CountStatus(db, created, "failed") >= created

\* _should_finish with processed_chunks counting the completed rows only.
ShouldFinishCountingCompleted ==
    /\ chunking_complete
    /\ CountStatus(db, created, "pending") = 0
    /\ Len(active_threads) = 0
    /\ CountStatus(db, created, "completed") >= created

ShouldFinish ==
    /\ chunking_complete
    /\ CountStatus(db, created, "pending") = 0
    /\ Len(active_threads) = 0
    /\ CountStatus(db, created, "completed") + CountStatus(db, created, "failed") >= created

\* One turn of "while not self.should_stop" up to the queue poll: the watchdog
\* pass (p overdue threads, D stale rows) and the concurrency test.
LoopTop(p, D) ==
    /\ loops.top > 0
    /\ IF should_stop
       THEN /\ loops' = [loops EXCEPT !.top = @ - 1, !.stopped = @ + 1]
            /\ p = 0 /\ D = {}
            /\ UNCHANGED <<active_threads, retry_counts, db, obj, queue, reclaims>>
       ELSE LET stuck == StuckChunks(p, D)
                st == CheckStuckThreads(p, D)
            IN  /\ reclaims + Len(stuck) <= MaxReclaims
                /\ reclaims' = reclaims + Len(stuck)
                /\ active_threads' = st.act
                /\ retry_counts' = st.rc
                /\ db' = st.rows
                /\ obj' = st.objs
                /\ queue' = st.q
                /\ IF AtCapacity(st.act)
                   THEN /\ Len(stuck) > 0
                        /\ UNCHANGED loops
                   ELSE loops' = [loops EXCEPT !.top = @ - 1, !.get = @ + 1]
    /\ UNCHANGED <<created, chunking_complete, cpc, wpc, completed_chunks,
                   is_running, should_stop, transcript, stops, dispatches>>
    /\ UNCHANGED <<reassemblyVars, outsideSession>>

\* self.transcription_queue.get(timeout=1.0) and what follows it: the chunk is
\* handed to _start_chunk_transcription, or on Empty _should_finish decides.
LoopGet ==
    /\ loops.get > 0
    /\ IF queue # <<>>
       THEN LET a == Head(queue)
            IN  /\ queue' = Tail(queue)
                /\ active_threads' = PutKey(active_threads, a)
                /\ cpc' = [cpc EXCEPT ![a] = "start"]
                /\ dispatches' = [dispatches EXCEPT ![a[1]] = @ + 1]
                /\ loops' = [loops EXCEPT !.get = @ - 1, !.top = @ + 1]
       ELSE /\ IF ShouldFinish
               THEN loops' = [loops EXCEPT !.get = @ - 1, !.finished = @ + 1]
               ELSE loops' = [loops EXCEPT !.get = @ - 1, !.top = @ + 1]
            /\ UNCHANGED <<queue, active_threads, cpc, dispatches>>
    /\ UNCHANGED <<created, chunking_complete, db, obj, wpc, completed_chunks,
                   retry_counts, is_running, should_stop, transcript, stops, reclaims>>
    /\ UNCHANGED <<reassemblyVars, outsideSession>>

\* -------------------------------------------------------------- reassembly
RECURSIVE JoinParts(_)
JoinParts(parts) ==
    IF parts = <<>> THEN <<>> ELSE Head(parts) \o JoinParts(Tail(parts))

\* The scan taking a row only if every row before it is completed.
IncludedInScanContiguous(i, rows, comp) ==
    /\ i \in comp
    /\ rows[i].text # <<>>
    /\ \A k \in 0 .. (i - 1) : rows[k].status = "completed"

\* Whether the scan of _update_progressive_transcript takes the row of chunk i.
IncludedInScan(i, rows, comp) == i \in comp /\ rows[i].text # <<>>

\* The scan in descending index order.
ScanOrderDescending(n) == [k \in 1 .. n |-> n - k]

\* The rows in the order of the scan: order_by('chunk_index').
ScanOrder(n) == [k \in 1 .. n |-> k - 1]

\* The text the scan appends for chunk i, given the parts collected so far.
PartOf(i, rows, parts) ==
    IF parts # <<>> /\ i > 0 /\ rows[i - 1].text # <<>>
    THEN RemoveOverlapText(rows[i - 1].text, rows[i].text,
                           Max2(0, EndTime(i - 1) - StartTime(i)))
    ELSE rows[i].text

RECURSIVE BuildParts(_, _, _, _)
BuildParts(order, rows, comp, parts) ==
    IF order = <<>> THEN parts
    ELSE LET i == Head(order)
             text == PartOf(i, rows, parts)
         IN  BuildParts(Tail(order), rows, comp,
                        IF IncludedInScan(i, rows, comp) /\ text # <<>>
                        THEN Append(parts, text) ELSE parts)

\* What _update_progressive_transcript computes from the rows it reads.
ProgressiveUpdate(rows, comp, n, complete) ==
    LET parts == BuildParts(ScanOrder(n), rows, comp, <<>>)
        completed == CountStatus(rows, n, "completed")
    IN  IF parts = <<>> THEN NoUpd
        ELSE IF completed >= n /\ complete
             THEN [kind |-> "completed", text |-> JoinParts(parts), progress |-> 100]
        ELSE IF completed > 0
             THEN [kind |-> "partial", text |-> JoinParts(parts),
                   progress |-> ProgressPercentage(completed, n)]
        ELSE [kind |-> "text", text |-> JoinParts(parts), progress |-> 0]

\* transcript.text / status / progress as assigned before transcript.save().
ApplyUpdate(t, u) ==
    IF u.kind = "completed"
    THEN [text |-> u.text, status |-> "completed", progress |-> 100]
    ELSE IF u.kind = "partial"
    THEN [text |-> u.text, status |-> "processing", progress |-> u.progress]
    ELSE [t EXCEPT !.text = u.text]

\* ------------------------------------------------- transcribe_chunk thread
\* thread.is_alive() after thread.join(timeout): the bounded wait expired with
\* the worker still running, and the worker is left behind.
Abandoned(how) == how = "timeout"

\* An object nobody will touch again is dropped from the state.
Collect(objs, a, closureDone, workerDone) ==
    IF closureDone /\ workerDone THEN [objs EXCEPT ![a] = NoRow] ELSE objs

\* chunk.status = 'processing'; chunk.save(); the invoker starts its worker.
ClosureStart(a) ==
    /\ cpc[a] = "start"
    /\ LET o == [obj[a] EXCEPT !.status = "processing"]
       IN  /\ obj' = [obj EXCEPT ![a] = o]
           /\ db' = [db EXCEPT ![a[1]] = o]
    /\ cpc' = [cpc EXCEPT ![a] = "join"]
    /\ wpc' = [wpc EXCEPT ![a] = "run"]
    /\ UNCHANGED <<created, chunking_complete, queue, active_threads,
                   completed_chunks, retry_counts, is_running,
                   should_stop, transcript, loops, stops, dispatches, reclaims>>
    /\ UNCHANGED <<reassemblyVars, outsideSession>>

\* The object as transcribe_chunk leaves it after transcribe_audio_with_timeout
\* returned (success, text, timed_out); how tells what the worker did: "ok" a
\* text, "empty" an empty text, "raise" an exception, "timeout" nothing yet.
ChunkOutcome(a, how) ==
    IF how = "ok"
    THEN [obj[a] EXCEPT !.text = ChunkText(a[1]), !.status = "completed"]
    ELSE [obj[a] EXCEPT !.status = "failed", !.error = FailureMessage]

\* The finally block: the entries of the chunk index leave the in-flight maps.
FinallyRemove(act, a) == RemoveKey(act, a[1])

\* The wait of the invoker ends (the worker has finished, or the timeout has
\* expired with the worker alive) and transcribe_chunk saves the outcome.  On
\* success the thread records the chunk in completed_chunks and runs
\* _update_progressive_transcript; in every case its finally block follows.
ClosureResult(a, how) ==
    /\ cpc[a] = "join"
    /\ LET o == ChunkOutcome(a, how)
           rows == [db EXCEPT ![a[1]] = o]
           comp == completed_chunks \cup {a[1]}
           u == ProgressiveUpdate(rows, comp, created, chunking_complete)
       IN  /\ db' = rows
           /\ obj' = Collect([obj EXCEPT ![a] = o], a, TRUE, ~Abandoned(how))
           /\ IF o.status = "completed"
              THEN /\ completed_chunks' = comp
                   /\ IF u.kind = "none"
                      THEN UNCHANGED <<transcript, transcript_obj>>
                      ELSE /\ transcript_obj' = ApplyUpdate(transcript_obj, u)
                           /\ transcript' = ApplyUpdate(transcript_obj, u)
              ELSE UNCHANGED <<completed_chunks, transcript, transcript_obj>>
    /\ cpc' = [cpc EXCEPT ![a] = "idle"]
    /\ active_threads' = FinallyRemove(active_threads, a)
    /\ wpc' = [wpc EXCEPT ![a] = IF Abandoned(how) THEN @ ELSE "idle"]
    /\ UNCHANGED <<created, chunking_complete, queue, retry_counts,
                   is_running, should_stop, loops, stops, dispatches, reclaims>>
    /\ UNCHANGED <<update_failures, outsideSession>>

\* Where _update_progressive_transcript can raise: in the queries that read the
\* rows or the Transcript, in the counts made after transcript.text was
\* assigned, or in transcript.save().
RaisePoints == {"read", "count", "save"}

MaxUpdateFailures == 1

\* The cached object after the call raised at the point given: the assignments
\* made before the raise stay on it.
ObjectAfterRaise(t, u, point) ==
    IF point = "read" THEN t
    ELSE IF point = "count" THEN [t EXCEPT !.text = u.text]
    ELSE ApplyUpdate(t, u)

\* The row as if every assignment to the object were written at once.
RowAfterRaiseWritten(row, t) == t

\* The row after the call raised: transcript.save() is the only write and it
\* has not been made, or has failed.
RowAfterRaise(row, t) == row

\* The thread of a chunk that was transcribed with success, with
\* _update_progressive_transcript raising inside its try: the except branch
\* logs, and the finally block of the thread follows.
ClosureResultUpdateRaises(a, point) ==
    /\ cpc[a] = "join"
    /\ update_failures < MaxUpdateFailures
    /\ LET o == ChunkOutcome(a, "ok")
           rows == [db EXCEPT ![a[1]] = o]
           comp == completed_chunks \cup {a[1]}
           u == ProgressiveUpdate(rows, comp, created, chunking_complete)
           t == ObjectAfterRaise(transcript_obj, u, point)
       IN  /\ point # "read" => u.kind # "none"
           /\ db' = rows
           /\ obj' = Collect([obj EXCEPT ![a] = o], a, TRUE, TRUE)
           /\ completed_chunks' = comp
           /\ transcript_obj' = t
           /\ transcript' = RowAfterRaise(transcript, t)
    /\ update_failures' = update_failures + 1
    /\ cpc' = [cpc EXCEPT ![a] = "idle"]
    /\ active_threads' = FinallyRemove(active_threads, a)
    /\ wpc' = [wpc EXCEPT ![a] = "idle"]
    /\ UNCHANGED <<created, chunking_complete, queue, retry_counts,
                   is_running, should_stop, loops, stops, dispatches, reclaims>>
    /\ UNCHANGED outsideSession

\* ------------------------------------------------ transcribe_worker thread
\* transcript_obj.progress = ...; transcript_obj.save(): the whole object is
\* written to its row.  A save that leaves the row as it is changes nothing
\* and is not a step.
WorkerSave(a) ==
    /\ wpc[a] = "run"
    /\ db[a[1]] # obj[a]
    /\ db' = [db EXCEPT ![a[1]] = obj[a]]
    /\ UNCHANGED <<created, chunking_complete, obj, cpc, wpc, queue, active_threads,
                   completed_chunks, retry_counts, is_running,
                   should_stop, transcript, loops, stops, dispatches, reclaims>>
    /\ UNCHANGED <<reassemblyVars, outsideSession>>

\* A worker the invoker no longer waits for returns its text: nobody reads it.
WorkerLateReturn(a) ==
    /\ wpc[a] = "run"
    /\ cpc[a] # "join"
    /\ wpc' = [wpc EXCEPT ![a] = "idle"]
    /\ obj' = Collect(obj, a, TRUE, TRUE)
    /\ UNCHANGED <<created, chunking_complete, db, cpc, queue, active_threads,
                   completed_chunks, retry_counts, is_running,
                   should_stop, transcript, loops, stops, dispatches, reclaims>>
    /\ UNCHANGED <<reassemblyVars, outsideSession>>

\* The except branch of transcribe_audio in a worker the invoker no longer
\* waits for: status failed, the error, save, raise.
WorkerLateRaise(a) ==
    /\ wpc[a] = "run"
    /\ cpc[a] # "join"
    /\ db' = [db EXCEPT ![a[1]] =
                 [obj[a] EXCEPT !.status = "failed", !.error = FailureMessage]]
    /\ obj' = Collect(obj, a, TRUE, TRUE)
    /\ wpc' = [wpc EXCEPT ![a] = "idle"]
    /\ UNCHANGED <<created, chunking_complete, cpc, queue, active_threads,
                   completed_chunks, retry_counts, is_running,
                   should_stop, transcript, loops, stops, dispatches, reclaims>>
    /\ UNCHANGED <<reassemblyVars, outsideSession>>

\* ------------------------------------------------- reassembly on two chunks
\* reassemble_transcript on the rows recs (chunk_index = position - 1, each
\* [status, text, start_time, end_time]): the completed rows in index order,
\* each trimmed against the text appended last when the row before it is
\* completed too.
RECURSIVE ReassembleParts(_, _, _, _)
ReassembleParts(recs, k, parts, previousText) ==
    IF k > Len(recs) THEN parts
    ELSE LET chunk == recs[k]
         IN  IF chunk.status # "completed" \/ chunk.text = <<>>
             THEN ReassembleParts(recs, k + 1, parts, previousText)
             ELSE LET trim == /\ previousText # <<>>
                              /\ k > 1
                              /\ recs[k - 1].status = "completed"
                      cur == IF trim
                             THEN RemoveOverlapText(previousText, chunk.text,
                                      Max2(0, recs[k - 1].end_time - chunk.start_time))
                             ELSE chunk.text
                  IN  IF cur # <<>>
                      THEN ReassembleParts(recs, k + 1, Append(parts, cur), cur)
                      ELSE ReassembleParts(recs, k + 1, parts, previousText)

ReassembleTranscript(recs) == JoinParts(ReassembleParts(recs, 1, <<>>, <<>>))

\* The texts the calls are made on.  Words 1 and 2 are two words, -1 is word 1
\* capitalised; 4 5 6 and 7 8 9 are words that occur nowhere else.
Vocabulary == {1, -1, 2}
MaxHeadWords == 4

\* "hello there friends", "well now hello there friends" and
\* "there friends how are you".
HelloThereFriends == <<11, 12, 13>>
WellNowHelloThereFriends == <<17, 18, 11, 12, 13>>
ThereFriendsHowAreYou == <<12, 13, 14, 15, 16>>

PreviousTexts ==
    {<<7, 8, 9>> \o s : s \in [1 .. 2 -> Vocabulary]}
        \cup {<<>>, HelloThereFriends, WellNowHelloThereFriends}

CurrentTexts ==
    {s \o <<4, 5, 6>> : s \in UNION {[1 .. n -> Vocabulary] : n \in 2 .. MaxHeadWords}}
        \cup {<<>>, ThereFriendsHowAreYou}

\* Overlaps in tenths of a second: none, 0.3 s, 2 s, and the configured 5 s.
Overlaps == {0, 3, 20, 10 * OverlapDuration}

\* Two completed chunks of 10 s and 12 s or less whose windows overlap.
TwoChunks ==
    <<[status |-> "completed", text |-> previous_text,
       start_time |-> 0, end_time |-> 100],
      [status |-> "completed", text |-> current_text,
       start_time |-> 100 - overlap_duration, end_time |-> 200]>>

TextIdle ==
    /\ previous_text = <<>>
    /\ current_text = <<>>
    /\ following_text = <<>>
    /\ overlap_duration = 0
    /\ text_pc = "idle"
    /\ result = <<>>

\* remove_overlap_text(previous_text, current_text, overlap_duration)
RemoveOverlap ==
    /\ text_pc = "input"
    /\ result' = RemoveOverlapText(previous_text, current_text, overlap_duration)
    /\ text_pc' = "trimmed"
    /\ UNCHANGED <<previous_text, current_text, following_text, overlap_duration,
                   sessionVars, chunkerVars, uploadVars, registryVars, serviceVars>>

\* remove_overlap_text(previous_text, t, overlap_duration) on the text t that
\* the first call returned.
RemoveOverlapAgain ==
    /\ text_pc = "trimmed"
    /\ result' = RemoveOverlapText(previous_text, result, overlap_duration)
    /\ text_pc' = "retrimmed"
    /\ UNCHANGED <<previous_text, current_text, following_text, overlap_duration,
                   sessionVars, chunkerVars, uploadVars, registryVars, serviceVars>>

\* reassemble_transcript(meeting) for a meeting with the two chunks.
Reassemble ==
    /\ text_pc = "input"
    /\ result' = ReassembleTranscript(TwoChunks)
    /\ text_pc' = "reassembled"
    /\ UNCHANGED <<previous_text, current_text, following_text, overlap_duration,
                   sessionVars, chunkerVars, uploadVars, registryVars, serviceVars>>

\* Three consecutive chunks with the texts of the call and the windows of the
\* chunker.  A chunk without text has failed: transcribe_chunk completes a
\* chunk only with a text.
ThreeTexts == <<previous_text, current_text, following_text>>

StatusOfText(text) == IF text = <<>> THEN "failed" ELSE "completed"

\* The rows as _update_progressive_transcript reads them, by chunk_index.
ThreeRows ==
    [i \in 0 .. 2 |-> [status |-> StatusOfText(ThreeTexts[i + 1]), text |-> ThreeTexts[i + 1]]]

\* The rows as reassemble_transcript reads them, in index order.
ThreeChunks ==
    [k \in 1 .. 3 |-> [status |-> StatusOfText(ThreeTexts[k]), text |-> ThreeTexts[k],
                       start_time |-> StartTime(k - 1), end_time |-> EndTime(k - 1)]]

\* The chunks recorded in completed_chunks once every completion is processed.
ThreeCompleted == {i \in 0 .. 2 : ThreeRows[i].status = "completed"}

\* complete_text of _update_progressive_transcript for the three chunks.
ReassembleProgressive ==
    /\ text_pc = "input"
    /\ result' = JoinParts(BuildParts(ScanOrder(3), ThreeRows, ThreeCompleted, <<>>))
    /\ text_pc' = "progressive"
    /\ UNCHANGED <<previous_text, current_text, following_text, overlap_duration,
                   sessionVars, chunkerVars, uploadVars, registryVars, serviceVars>>

\* reassemble_transcript(meeting) for the three chunks.
ReassembleBatch ==
    /\ text_pc = "input"
    /\ result' = ReassembleTranscript(ThreeChunks)
    /\ text_pc' = "batch"
    /\ UNCHANGED <<previous_text, current_text, following_text, overlap_duration,
                   sessionVars, chunkerVars, uploadVars, registryVars, serviceVars>>

\* Texts of a first, second and third chunk: those of the recogniser model
\* (six words, two shared with the neighbour), shorter and unrelated ones, and
\* none for a chunk that failed.
FirstTexts == {ChunkText(0), <<>>, WellNowHelloThereFriends, <<7, 8, 9, 1, 2>>}
MiddleTexts ==
    {ChunkText(1), <<>>, ThereFriendsHowAreYou}
        \cup {s \o <<4, 5, 6>> : s \in [1 .. 2 -> Vocabulary]}
FollowingTexts ==
    {ChunkText(2), <<>>, <<9, 10, 21, 22, 23>>, <<5, 6, 21, 22, 23>>, <<4, 5, 6, 21, 22, 23>>}

\* ---------------------------------------------------------------- chunker
MinChunkDuration == 10
MaxChunks == 150
MaxDuration == 7200
ChunkThreshold == 2097152
MaxAudioDuration == 70
MaxSpeechSegments == 4
MaxRows == 3

\* AudioChunker.__init__ with the defaults of the settings.
DefaultConfig ==
    [chunk_duration |-> ChunkDuration, overlap_duration |-> OverlapDuration,
     min_chunk_duration |-> MinChunkDuration, max_chunks |-> MaxChunks,
     max_duration |-> MaxDuration]

\* The "while current_start < audio_duration and len(chunks) < max_chunks" loop.
RECURSIVE TimeBasedLoop(_, _, _, _)
TimeBasedLoop(cfg, D, chunks, currentStart) ==
    IF ~(currentStart < D /\ Len(chunks) < cfg.max_chunks) THEN chunks
    ELSE LET chunkEnd == Min2(currentStart + cfg.chunk_duration, D)
             appended == Append(chunks, <<currentStart, chunkEnd>>)
             nextStart == currentStart + cfg.chunk_duration - cfg.overlap_duration
         IN  IF D - nextStart < cfg.min_chunk_duration
             THEN [appended EXCEPT ![Len(appended)] = <<@[1], D>>]
             ELSE TimeBasedLoop(cfg, D, appended, nextStart)

\* The loop without the test on the remaining audio: every step emits a window.
RECURSIVE TimeBasedLoopEmittingTail(_, _, _, _)
TimeBasedLoopEmittingTail(cfg, D, chunks, currentStart) ==
    IF ~(currentStart < D /\ Len(chunks) < cfg.max_chunks) THEN chunks
    ELSE TimeBasedLoopEmittingTail(cfg, D,
             Append(chunks, <<currentStart, Min2(currentStart + cfg.chunk_duration, D)>>),
             currentStart + cfg.chunk_duration - cfg.overlap_duration)

TimeBasedChunksEmittingTail(cfg, D) ==
    IF D <= cfg.chunk_duration THEN <<<<0, D>>>>
    ELSE TimeBasedLoopEmittingTail(cfg, D, <<>>, 0)

\* create_time_based_chunks for the probed duration D.  What follows the loop
\* (the max_chunks warning and the clamp of the local audio_duration to
\* max_duration) changes nothing of the list that is returned.
TimeBasedChunks(cfg, D) ==
    IF D <= cfg.chunk_duration THEN <<<<0, D>>>>
    ELSE TimeBasedLoop(cfg, D, <<>>, 0)

\* end - start if end else self.chunk_duration
SegmentDuration(cfg, seg) == IF seg[2] # 0 THEN seg[2] - seg[1] ELSE cfg.chunk_duration

\* The "for start, end in speech_segments" loop on st = [chunks, start, duration].
RECURSIVE VadLoop(_, _, _)
VadLoop(cfg, segs, st) ==
    IF segs = <<>> \/ Len(st.chunks) >= cfg.max_chunks THEN st
    ELSE LET seg == Head(segs)
             segmentDuration == SegmentDuration(cfg, seg)
         IN  IF /\ st.duration + segmentDuration > cfg.chunk_duration
                /\ st.duration >= cfg.min_chunk_duration
             THEN LET chunkEnd == Min2(seg[1] + cfg.overlap_duration,
                                       IF seg[2] # 0 THEN seg[2] ELSE seg[1] + segmentDuration)
                  IN  VadLoop(cfg, Tail(segs),
                              [chunks |-> Append(st.chunks, <<st.start, chunkEnd>>),
                               start |-> Max2(0, seg[1] - cfg.overlap_duration),
                               duration |-> segmentDuration + cfg.overlap_duration])
             ELSE VadLoop(cfg, Tail(segs),
                          [st EXCEPT !.duration = @ + segmentDuration])

\* create_vad_aware_chunks: the time-based windows when the detector returns
\* no or one segment, else the windows of the loop and the final window.
VadAwareChunks(cfg, segs, D) ==
    IF Len(segs) <= 1 THEN TimeBasedChunks(cfg, D)
    ELSE LET st == VadLoop(cfg, segs, [chunks |-> <<>>, start |-> 0, duration |-> 0])
         IN  IF st.duration >= cfg.min_chunk_duration
             THEN Append(st.chunks, <<st.start, D>>)
             ELSE st.chunks

\* should_chunk_file with the threshold itself counted as large.
ShouldChunkFileAtThreshold(size) == size >= ChunkThreshold

\* should_chunk_file
ShouldChunkFile(size) == size > ChunkThreshold

\* AudioChunk.objects.create(... status='pending') for window k of segs.
NewAudioChunk(segs, k) ==
    [chunk_index |-> k - 1, start_time |-> segs[k][1], end_time |-> segs[k][2],
     duration |-> segs[k][2] - segs[k][1], status |-> "pending"]

\* The rows of the windows whose save_audio_chunk succeeded, in index order.
RowsOf(segs, saved) ==
    LET idx == SortedSeq(saved) IN [n \in 1 .. Len(idx) |-> NewAudioChunk(segs, idx[n])]

ChunkerIdle ==
    /\ file_size = 0
    /\ audio_duration = 0
    /\ speech_segments = <<>>
    /\ config = DefaultConfig
    /\ chunk_segments = <<>>
    /\ audio_chunks = <<>>
    /\ chunker_pc = "idle"

\* A direct call of create_time_based_chunks.
CreateTimeBasedChunks ==
    /\ chunker_pc = "input"
    /\ chunk_segments' = TimeBasedChunks(config, audio_duration)
    /\ chunker_pc' = "time_based"
    /\ UNCHANGED <<file_size, audio_duration, speech_segments, config, audio_chunks,
                   sessionVars, libraryVars, uploadVars>>

\* A direct call of create_vad_aware_chunks.
CreateVadAwareChunks ==
    /\ chunker_pc = "input"
    /\ chunk_segments' = VadAwareChunks(config, speech_segments, audio_duration)
    /\ chunker_pc' = "vad_aware"
    /\ UNCHANGED <<file_size, audio_duration, speech_segments, config, audio_chunks,
                   sessionVars, libraryVars, uploadVars>>

\* chunk_audio_file: nothing at or below the size threshold; else the windows,
\* and a pending row for every window whose audio could be saved.
ChunkAudioFileRuns ==
    /\ chunker_pc \in {"input", "skipped"}
    /\ IF ~ShouldChunkFile(file_size)
       THEN /\ chunker_pc' = "skipped"
            /\ UNCHANGED <<chunk_segments, audio_chunks>>
       ELSE LET segs == VadAwareChunks(config, speech_segments, audio_duration)
            IN  /\ Len(segs) <= MaxRows
                /\ chunk_segments' = segs
                /\ IF segs = <<>>
                   THEN /\ chunker_pc' = "no_chunks"
                        /\ UNCHANGED audio_chunks
                   ELSE /\ chunker_pc' = "chunked"
                        /\ \E saved \in SUBSET (1 .. Len(segs)) :
                              audio_chunks' = RowsOf(segs, saved)
    /\ UNCHANGED <<file_size, audio_duration, speech_segments, config,
                   sessionVars, libraryVars>>

\* A call of chunk_audio_file (chunk_meeting_audio) for the recording.
ChunkAudioFile ==
    /\ ChunkAudioFileRuns
    /\ UNCHANGED uploadVars

\* The transcription of a pending row ends: completed with a text, or failed.
TranscribeAudioChunk(n, status) ==
    /\ n \in 1 .. Len(audio_chunks)
    /\ audio_chunks[n].status = "pending"
    /\ audio_chunks' = [audio_chunks EXCEPT ![n].status = status]
    /\ UNCHANGED <<file_size, audio_duration, speech_segments, config,
                   chunk_segments, chunker_pc, sessionVars, libraryVars, uploadVars>>

\* transcribe_chunk begins on a pending row: status processing is saved.
TranscribeChunkBegins(n) ==
    /\ n \in 1 .. Len(audio_chunks)
    /\ audio_chunks[n].status = "pending"
    /\ audio_chunks' = [audio_chunks EXCEPT ![n].status = "processing"]
    /\ UNCHANGED <<file_size, audio_duration, speech_segments, config,
                   chunk_segments, chunker_pc, sessionVars, libraryVars, uploadVars>>

\* transcribe_chunk saves its outcome on the row it set to processing.
TranscribeChunkReturns(n, status) ==
    /\ n \in 1 .. Len(audio_chunks)
    /\ audio_chunks[n].status = "processing"
    /\ audio_chunks' = [audio_chunks EXCEPT ![n].status = status]
    /\ UNCHANGED <<file_size, audio_duration, speech_segments, config,
                   chunk_segments, chunker_pc, sessionVars, libraryVars, uploadVars>>

\* n speech intervals of the given length, one second of silence between them.
SpeechPattern(n, length) ==
    [k \in 1 .. n |-> <<(k - 1) * (length + 1), (k - 1) * (length + 1) + length>>]

\* What the detector can return for a recording of D seconds: nothing, the
\* whole recording as one open segment, or intervals inside the recording.
SpeechSegmentsOf(D) ==
    {<<>>, <<<<0, 0>>>>}
        \cup {segs \in {SpeechPattern(n, length) :
                           n \in 1 .. MaxSpeechSegments, length \in {3, 16}} :
                 \A k \in 1 .. Len(segs) : segs[k][2] <= D}

\* The settings: the defaults, a lower chunk limit, a lower duration limit,
\* and a minimum window as long as the target window.
Configs ==
    {DefaultConfig,
     [DefaultConfig EXCEPT !.max_chunks = 2],
     [DefaultConfig EXCEPT !.max_duration = 60],
     [DefaultConfig EXCEPT !.min_chunk_duration = ChunkDuration]}

Durations == 0 .. MaxAudioDuration

\* --------------------------------------------------------------- web layer
LargeFileThreshold == 104857600
MaxStarts == 2

NoResponse == [progress |-> 0, status |-> "none", is_chunked |-> FALSE]
NotRunning == [pc |-> "idle", stage |-> 0]

UploadIdle ==
    /\ create_chunks = 0
    /\ run_transcription = NotRunning
    /\ starts = 0
    /\ progress_response = NoResponse

\* upload_audio: the Meeting and its Transcript are created, and for a file
\* above 100 MB a create_chunks thread is started.
UploadAudio ==
    /\ chunker_pc = "idle"
    /\ chunker_pc' = "input"
    /\ create_chunks' = IF file_size > LargeFileThreshold THEN create_chunks + 1
                        ELSE create_chunks
    /\ UNCHANGED <<file_size, audio_duration, speech_segments, config, chunk_segments,
                   audio_chunks, run_transcription, starts, progress_response,
                   sessionVars, libraryVars>>

\* The create_chunks thread of upload_audio: chunk_meeting_audio(meeting).
CreateChunks ==
    /\ create_chunks > 0
    /\ create_chunks' = create_chunks - 1
    /\ ChunkAudioFileRuns
    /\ UNCHANGED <<run_transcription, starts, progress_response>>

\* start_transcription: status processing, and a run_transcription thread.
StartTranscription ==
    /\ chunker_pc # "idle"
    /\ run_transcription.pc = "idle"
    /\ starts < MaxStarts
    /\ starts' = starts + 1
    /\ transcript' = [transcript EXCEPT !.status = "processing"]
    /\ run_transcription' = [pc |-> "check", stage |-> 0]
    /\ UNCHANGED <<sessionFields, libraryVars, chunkerVars, create_chunks, progress_response>>

\* chunks.exists() in run_transcription.
RunCheckChunks ==
    /\ run_transcription.pc = "check"
    /\ run_transcription' =
          [run_transcription EXCEPT !.pc = IF audio_chunks # <<>> THEN "chunks" ELSE "single"]
    /\ UNCHANGED <<sessionVars, libraryVars, chunkerVars, create_chunks, starts,
                   progress_response>>

\* transcript_obj.progress = 10, 30, 60, 90 in transcribe_audio.
SingleProgress == <<10, 30, 60, 90>>

\* transcribe_audio on the whole file saves its next progress value.
RunSingleProgress ==
    /\ run_transcription.pc = "single"
    /\ run_transcription.stage < Len(SingleProgress)
    /\ run_transcription' = [run_transcription EXCEPT !.stage = @ + 1]
    /\ transcript' = [transcript EXCEPT !.progress = SingleProgress[run_transcription.stage + 1]]
    /\ UNCHANGED <<sessionFields, libraryVars, chunkerVars, create_chunks, starts,
                   progress_response>>

\* transcribe_audio returns the text of the file and run_transcription writes
\* it with status completed and progress 100.
RunSingleComplete ==
    /\ run_transcription.pc = "single"
    /\ run_transcription.stage = Len(SingleProgress)
    /\ run_transcription' = NotRunning
    /\ transcript' = [text |-> ChunkText(0), status |-> "completed", progress |-> 100]
    /\ UNCHANGED <<sessionFields, libraryVars, chunkerVars, create_chunks, starts,
                   progress_response>>

\* transcribe_audio raises: its except branch and the one of run_transcription
\* write status failed.
RunSingleFail ==
    /\ run_transcription.pc = "single"
    /\ run_transcription' = NotRunning
    /\ transcript' = [transcript EXCEPT !.status = "failed"]
    /\ UNCHANGED <<sessionFields, libraryVars, chunkerVars, create_chunks, starts,
                   progress_response>>

\* transcribe_audio on the whole file never returns: run_transcription calls it
\* directly, and the thread has no further step.
RunSingleHangs ==
    /\ run_transcription.pc = "single"
    /\ run_transcription' = [run_transcription EXCEPT !.pc = "hung"]
    /\ UNCHANGED <<sessionVars, libraryVars, chunkerVars, create_chunks, starts,
                   progress_response>>

\* The rows with the given status, as positions of audio_chunks.
RowsWithStatus(rows, st) == {n \in 1 .. Len(rows) : rows[n].status = st}

\* transcribe_meeting_chunks and what run_transcription does with its result:
\* the pending rows are transcribed (those of succeeded complete), the text of
\* the completed rows is reassembled and written with the status and the
\* progress of this batch; unless all succeeded the status is set to failed.
RunTranscribeMeetingChunks ==
    /\ run_transcription.pc = "chunks"
    /\ run_transcription' = NotRunning
    /\ LET pending == RowsWithStatus(audio_chunks, "pending")
       IN  \E succeeded \in SUBSET pending :
              LET rows == [n \in 1 .. Len(audio_chunks) |->
                             IF n \in succeeded
                             THEN [audio_chunks[n] EXCEPT !.status = "completed"]
                             ELSE IF n \in pending
                             THEN [audio_chunks[n] EXCEPT !.status = "failed"]
                             ELSE audio_chunks[n]]
                  text == SortedSeq({rows[n].chunk_index + 1 :
                                        n \in RowsWithStatus(rows, "completed")})
                  count == Cardinality(pending)
                  success == Cardinality(succeeded)
                  written == IF success > 0 /\ text # <<>>
                             THEN [text |-> text,
                                   status |-> IF success = count THEN "completed"
                                              ELSE "partially_completed",
                                   progress |-> (success * 100) \div count]
                             ELSE transcript
              IN  /\ audio_chunks' = rows
                  /\ transcript' = IF success = count THEN written
                                   ELSE [written EXCEPT !.status = "failed"]
    /\ UNCHANGED <<sessionFields, libraryVars, file_size, audio_duration, speech_segments,
                   config, chunk_segments, chunker_pc, create_chunks, starts,
                   progress_response>>

\* overall_status of get_transcription_progress.
OverallStatus(rows) ==
    LET total == Len(rows)
        completed == Cardinality(RowsWithStatus(rows, "completed"))
        processing == Cardinality(RowsWithStatus(rows, "processing"))
        failed == Cardinality(RowsWithStatus(rows, "failed"))
    IN  IF failed = total THEN "failed"
        ELSE IF completed = total THEN "completed"
        ELSE IF processing > 0 \/ completed > 0 THEN "processing"
        ELSE "pending"

\* transcription_progress: the chunk-based figures when the meeting has chunk
\* rows, else the progress and status of the Transcript row.
TranscriptionProgress ==
    /\ chunker_pc # "idle"
    /\ progress_response' =
          IF audio_chunks # <<>>
          THEN [progress |-> ProgressPercentage(
                                 Cardinality(RowsWithStatus(audio_chunks, "completed")),
                                 Len(audio_chunks)),
                status |-> OverallStatus(audio_chunks),
                is_chunked |-> TRUE]
          ELSE [progress |-> transcript.progress, status |-> transcript.status,
                is_chunked |-> FALSE]
    /\ UNCHANGED <<sessionVars, libraryVars, chunkerVars, create_chunks, run_transcription,
                   starts>>

\* Sizes at and around the two thresholds.
FileSizes ==
    {ChunkThreshold - 1, ChunkThreshold, ChunkThreshold + 1,
     LargeFileThreshold, LargeFileThreshold + 1}

\* ---------------------------------------------------------------- registry
NumCallers == 2
MaxCleanups == 1

Callers == 1 .. NumCallers
\* The ids of two recordings.
MeetingIds == {1, 2}

NotCalling == [pc |-> "idle", op |-> "none", meeting_id |-> 0]

RegistryIdle ==
    /\ active_transcribers = [m \in MeetingIds |-> 0]
    /\ lock = 0
    /\ caller = [c \in Callers |-> NotCalling]
    /\ sessions = {}
    /\ returned = {}
    /\ cleanups = [m \in MeetingIds |-> 0]

\* threading.Lock whose acquire goes through whoever holds it.
LockFreeIgnored(l) == TRUE

\* threading.Lock: acquire succeeds only while nobody holds it.
LockFree(l) == l = 0

\* A thread calls get_or_create_transcriber or cleanup_transcriber for a
\* recording and arrives at `with cls._lock`.
RegistryCall(c, op, m) ==
    /\ caller[c].pc = "idle"
    /\ op = "cleanup" => cleanups[m] < MaxCleanups
    /\ caller' = [caller EXCEPT ![c] = [pc |-> "lock", op |-> op, meeting_id |-> m]]
    /\ UNCHANGED <<active_transcribers, lock, sessions, returned, cleanups,
                   sessionVars, textVars, chunkerVars, uploadVars,
                   serviceVars>>

\* with cls._lock: the lock is taken.
RegistryAcquire(c) ==
    /\ caller[c].pc = "lock"
    /\ LockFree(lock)
    /\ lock' = c
    /\ caller' = [caller EXCEPT ![c].pc = "test"]
    /\ UNCHANGED <<active_transcribers, sessions, returned, cleanups,
                   sessionVars, textVars, chunkerVars, uploadVars,
                   serviceVars>>

\* if meeting_id not in cls._active_transcribers
GetTest(c) ==
    /\ caller[c].pc = "test"
    /\ caller[c].op = "get"
    /\ caller' = [caller EXCEPT ![c].pc =
                     IF active_transcribers[caller[c].meeting_id] = 0 THEN "insert"
                     ELSE "return"]
    /\ UNCHANGED <<active_transcribers, lock, sessions, returned, cleanups,
                   sessionVars, textVars, chunkerVars, uploadVars,
                   serviceVars>>

\* cls._active_transcribers[meeting_id] = cls(meeting): a new session object.
GetInsert(c) ==
    /\ caller[c].pc = "insert"
    /\ LET new == Cardinality(sessions) + 1
           m == caller[c].meeting_id
       IN  /\ sessions' = sessions \cup {[object |-> new, meeting_id |-> m, stopped |-> FALSE,
                                            finished |-> FALSE]}
           /\ active_transcribers' = [active_transcribers EXCEPT ![m] = new]
    /\ caller' = [caller EXCEPT ![c].pc = "return"]
    /\ UNCHANGED <<lock, returned, cleanups, sessionVars, textVars, chunkerVars, uploadVars,
                   serviceVars>>

\* return cls._active_transcribers[meeting_id], and the lock is released.
GetReturn(c) ==
    /\ caller[c].pc = "return"
    /\ LET m == caller[c].meeting_id
       IN  returned' = returned \cup {[meeting_id |-> m, cleanups |-> cleanups[m],
                                       object |-> active_transcribers[m]]}
    /\ lock' = 0
    /\ caller' = [caller EXCEPT ![c] = NotCalling]
    /\ UNCHANGED <<active_transcribers, sessions, cleanups,
                   sessionVars, textVars, chunkerVars, uploadVars,
                   serviceVars>>

\* cleanup_transcriber under the lock: the session of the recording, if any,
\* is stopped and its entry deleted; the lock is released.
CleanupTranscriber(c) ==
    /\ caller[c].pc = "test"
    /\ caller[c].op = "cleanup"
    /\ LET m == caller[c].meeting_id
       IN  IF active_transcribers[m] # 0
           THEN /\ sessions' = {IF t.object = active_transcribers[m]
                                THEN [t EXCEPT !.stopped = TRUE] ELSE t : t \in sessions}
                /\ active_transcribers' = [active_transcribers EXCEPT ![m] = 0]
                /\ cleanups' = [cleanups EXCEPT ![m] = @ + 1]
           ELSE UNCHANGED <<sessions, active_transcribers, cleanups>>
    /\ lock' = 0
    /\ caller' = [caller EXCEPT ![c] = NotCalling]
    /\ UNCHANGED <<returned, sessionVars, textVars, chunkerVars, uploadVars,
                   serviceVars>>

\* The loop of the session registered for recording m ends: _should_finish held
\* on an empty queue, the loop breaks and logs.  Nothing else is done.
ProcessQueueReturns(m) ==
    /\ \E t \in sessions : t.object = active_transcribers[m] /\ ~t.finished /\ ~t.stopped
    /\ sessions' = {IF t.object = active_transcribers[m]
                    THEN [t EXCEPT !.finished = TRUE] ELSE t : t \in sessions}
    /\ UNCHANGED <<active_transcribers, lock, caller, returned, cleanups,
                   sessionVars, textVars, chunkerVars, uploadVars, serviceVars>>

\* -------------------------------------------------------------- remote API
ApiMaxRetries == 2
MaxPolls == 1

\* The HTTP statuses a request is answered with; 0 stands for no response
\* (requests.exceptions.Timeout or another RequestException).
HttpStatuses == {200, 400, 401, 403, 500}
RequestOutcomes == HttpStatuses \cup {0}

\* if response.status_code in [400, 401, 403]: break
NonRetriable(status) == status \in {400, 401, 403}

ApiIdle ==
    /\ provider = "none"
    /\ api_pc = "idle"
    /\ attempt = 0
    /\ responses = <<>>
    /\ polls = 0

\* transcribe_file is called on a validated configuration and file: the loop
\* over the attempts begins.
TranscribeFile(cls) ==
    /\ api_pc = "idle"
    /\ provider' = cls
    /\ api_pc' = "attempt"
    /\ UNCHANGED <<attempt, responses, polls>>
    /\ UNCHANGED <<sessionVars, textVars, chunkerVars, uploadVars, registryVars, cacheVars,
                   monitorVars>>

\* An except branch of the loop body has recorded last_error: the back-off
\* sleep and the next attempt, or after the last attempt the raise.
AfterError(att) ==
    IF att < ApiMaxRetries
    THEN [pc |-> "attempt", attempt |-> att + 1]
    ELSE [pc |-> "raised", attempt |-> att]

Received(request, status) == [request |-> request, status |-> status, attempt |-> attempt]

\* AssemblyAI's _prepare_request_data begins with _upload_file: a POST of the
\* file, whose answer other than 200 is raised as an Exception inside the
\* try block of transcribe_file.
UploadFile(status) ==
    /\ provider = "assemblyai"
    /\ api_pc = "attempt"
    /\ responses' = Append(responses, Received("upload", status))
    /\ IF status = 200
       THEN /\ api_pc' = "post"
            /\ UNCHANGED attempt
       ELSE /\ api_pc' = AfterError(attempt).pc
            /\ attempt' = AfterError(attempt).attempt
    /\ UNCHANGED <<provider, polls>>
    /\ UNCHANGED <<sessionVars, textVars, chunkerVars, uploadVars, registryVars, cacheVars,
                   monitorVars>>

\* requests.post of transcribe_file and the test of its status: on 200 the
\* response is parsed (for AssemblyAI the parse polls the job), a status of
\* 400, 401 or 403 breaks out of the loop, any other failure is retried.
PostRequest(status, parsed) ==
    /\ \/ provider = "openai" /\ api_pc = "attempt"
       \/ provider = "assemblyai" /\ api_pc = "post"
    /\ status # 200 => parsed
    /\ responses' = Append(responses, Received("post", status))
    /\ IF status = 200 /\ parsed
       THEN /\ api_pc' = IF provider = "assemblyai" THEN "poll" ELSE "returned"
            /\ UNCHANGED attempt
       ELSE IF NonRetriable(status)
       THEN /\ api_pc' = "raised"
            /\ UNCHANGED attempt
       ELSE /\ api_pc' = AfterError(attempt).pc
            /\ attempt' = AfterError(attempt).attempt
    /\ polls' = 0
    /\ UNCHANGED provider
    /\ UNCHANGED <<sessionVars, textVars, chunkerVars, uploadVars, registryVars, cacheVars,
                   monitorVars>>

\* One turn of _poll_transcription_status inside _parse_response: a GET whose
\* 200 answer says completed, queued/processing, or error; anything else
\* raises an Exception inside the try block of transcribe_file.
PollTranscriptionStatus(status, job) ==
    /\ api_pc = "poll"
    /\ status # 200 => job = "error"
    /\ job = "processing" => polls < MaxPolls
    /\ responses' = Append(responses, Received("poll", status))
    /\ IF status = 200 /\ job = "completed"
       THEN /\ api_pc' = "returned"
            /\ UNCHANGED <<attempt, polls>>
       ELSE IF status = 200 /\ job = "processing"
       THEN /\ polls' = polls + 1
            /\ UNCHANGED <<api_pc, attempt>>
       ELSE /\ api_pc' = AfterError(attempt).pc
            /\ attempt' = AfterError(attempt).attempt
            /\ UNCHANGED polls
    /\ UNCHANGED provider
    /\ UNCHANGED <<sessionVars, textVars, chunkerVars, uploadVars, registryVars, cacheVars,
                   monitorVars>>

\* ------------------------------------------------------------- model cache
MaxModelCalls == 4

ModelSizes == {"base", "medium", "thonburian-medium"}

\* What the load of a model does: WhisperModel(...) returns and the validation
\* passes ("ok"), WhisperModel(...) raises ("construct_raises"), or an
\* exception is raised in the try block after the assignment ("late_raise").
LoadOutcomes == {"ok", "construct_raises", "late_raise"}

NoCall == [model_size |-> "none", result |-> 0]

CacheIdle ==
    /\ model_cache = [size \in ModelSizes |-> 0]
    /\ whisper_models = <<>>
    /\ loaded = {}
    /\ last_call = NoCall
    /\ model_calls = 0

\* The except branch leaving the entry in place.
CacheAfterFailureKeeping(cache, size) == cache

\* if model_size in _model_cache: del _model_cache[model_size]
CacheAfterFailure(cache, size) == [cache EXCEPT ![size] = 0]

\* get_or_create_whisper_model(model_size): the cached instance, or a load
\* whose instance is stored and returned, or whose exception is raised after
\* the entry was removed.
GetOrCreateWhisperModel(size, outcome) ==
    /\ model_calls < MaxModelCalls
    /\ model_calls' = model_calls + 1
    /\ IF model_cache[size] # 0
       THEN /\ outcome = "ok"
            /\ last_call' = [model_size |-> size, result |-> model_cache[size]]
            /\ UNCHANGED <<model_cache, whisper_models, loaded>>
       ELSE LET instance == Len(whisper_models) + 1
                stored == [model_cache EXCEPT ![size] = instance]
            IN  /\ whisper_models' = Append(whisper_models, size)
                /\ IF outcome = "ok"
                   THEN /\ model_cache' = stored
                        /\ loaded' = loaded \cup {size}
                        /\ last_call' = [model_size |-> size, result |-> instance]
                   ELSE /\ model_cache' = CacheAfterFailure(
                                              IF outcome = "late_raise" THEN stored
                                              ELSE model_cache, size)
                        /\ last_call' = [model_size |-> size, result |-> 0]
                        /\ UNCHANGED loaded
    /\ UNCHANGED <<sessionVars, textVars, chunkerVars, uploadVars, registryVars, apiVars,
                   monitorVars>>

\* ---------------------------------------------------- performance monitoring
SlowChunkLimit == 3
MaxStarted == 5

MonitorIdle ==
    /\ max_concurrent = MaxConcurrentTranscriptions
    /\ slow_chunk_count = 0
    /\ performance_degraded = FALSE
    /\ in_flight = 0
    /\ started = 0
    /\ slow_ended = 0

\* max_concurrent as _process_queue computes it in each turn.
MaxConcurrentNow(limit, degraded) == IF degraded THEN 1 ELSE limit

\* A turn of _process_queue that passes the concurrency test and starts the
\* thread of the next chunk.
DispatchChunk ==
    /\ started < MaxStarted
    /\ in_flight < MaxConcurrentNow(max_concurrent, performance_degraded)
    /\ in_flight' = in_flight + 1
    /\ started' = started + 1
    /\ UNCHANGED <<max_concurrent, slow_chunk_count, performance_degraded, slow_ended>>
    /\ UNCHANGED <<sessionVars, textVars, chunkerVars, uploadVars, registryVars, apiVars,
                   cacheVars>>

\* The thread of a chunk ends: transcribe_chunk returned success or not, and
\* slow tells whether the chunk took more than 90 s.  The duration is looked
\* at in the success branch only.
ChunkThreadEnds(success, slow) ==
    /\ in_flight > 0
    /\ in_flight' = in_flight - 1
    /\ slow_ended' = IF slow THEN slow_ended + 1 ELSE slow_ended
    /\ IF success /\ slow
       THEN /\ slow_chunk_count' = slow_chunk_count + 1
            /\ performance_degraded' =
                  (performance_degraded \/ slow_chunk_count + 1 >= SlowChunkLimit)
       ELSE UNCHANGED <<slow_chunk_count, performance_degraded>>
    /\ UNCHANGED <<max_concurrent, started>>
    /\ UNCHANGED <<sessionVars, textVars, chunkerVars, uploadVars, registryVars, apiVars,
                   cacheVars>>

\* ----------------------------------------------------------- specification
Outcomes == {"ok", "empty", "raise", "timeout"}

\* The services beside the pipeline before any call.
ServicesIdle == ApiIdle /\ CacheIdle /\ MonitorIdle

Init == SessionInit /\ TextIdle /\ ChunkerIdle /\ UploadIdle /\ RegistryIdle /\ ServicesIdle

Next ==
    \/ CreateChunk
    \/ MarkChunkingComplete
    \/ \E p \in 0 .. Len(active_threads) : \E D \in SUBSET StaleCandidates : LoopTop(p, D)
    \/ LoopGet
    \/ \E a \in Attempts : ClosureStart(a)
    \/ \E a \in Attempts : \E how \in Outcomes : ClosureResult(a, how)
    \/ \E a \in Attempts : WorkerSave(a)
    \/ \E a \in Attempts : WorkerLateReturn(a)
    \/ \E a \in Attempts : WorkerLateRaise(a)

Spec == Init /\ [][Next]_vars

\* The session driven through its whole interface: start() and stop() too.
NextStop == Next \/ Start \/ Stop

SpecStop == Init /\ [][NextStop]_vars

\* The session with updates of the merged transcript that raise inside.
NextUpdateRaises ==
    \/ Next
    \/ \E a \in Attempts : \E point \in RaisePoints : ClosureResultUpdateRaises(a, point)

SpecUpdateRaises == Init /\ [][NextUpdateRaises]_vars

\* The reassembly functions called on every pair of texts of the bounded sets.
TextInit ==
    /\ SessionInit
    /\ ChunkerIdle
    /\ UploadIdle
    /\ RegistryIdle
    /\ ServicesIdle
    /\ previous_text \in PreviousTexts
    /\ current_text \in CurrentTexts
    /\ following_text = <<>>
    /\ overlap_duration \in Overlaps
    /\ text_pc = "input"
    /\ result = <<>>

TextNext == RemoveOverlap \/ RemoveOverlapAgain \/ Reassemble

SpecText == TextInit /\ [][TextNext]_vars

\* The two reassemblies called on every triple of texts of the bounded sets.
ReassemblyInit ==
    /\ SessionInit
    /\ ChunkerIdle
    /\ UploadIdle
    /\ RegistryIdle
    /\ ServicesIdle
    /\ previous_text \in FirstTexts
    /\ current_text \in MiddleTexts
    /\ following_text \in FollowingTexts
    /\ overlap_duration = 10 * OverlapDuration
    /\ text_pc = "input"
    /\ result = <<>>

ReassemblyNext == ReassembleProgressive \/ ReassembleBatch

SpecReassembly == ReassemblyInit /\ [][ReassemblyNext]_vars

\* The chunker called on every recording of the bounded sets.
ChunkerInit ==
    /\ SessionInit
    /\ TextIdle
    /\ UploadIdle
    /\ RegistryIdle
    /\ ServicesIdle
    /\ file_size = ChunkThreshold + 1
    /\ audio_duration \in Durations
    /\ speech_segments \in SpeechSegmentsOf(audio_duration)
    /\ config \in Configs
    /\ chunk_segments = <<>>
    /\ audio_chunks = <<>>
    /\ chunker_pc = "input"

ChunkerNext ==
    \/ CreateTimeBasedChunks
    \/ CreateVadAwareChunks
    \/ ChunkAudioFile
    \/ \E n \in 1 .. MaxRows : \E status \in {"completed", "failed"} :
          TranscribeAudioChunk(n, status)

SpecChunker == ChunkerInit /\ [][ChunkerNext]_vars

\* A recording of any of the sizes goes through the requests of the web layer.
UploadInit ==
    /\ SessionInit
    /\ TextIdle
    /\ UploadIdle
    /\ RegistryIdle
    /\ ServicesIdle
    /\ file_size \in FileSizes
    /\ audio_duration \in {0, MaxAudioDuration}
    /\ speech_segments = <<>>
    /\ config = DefaultConfig
    /\ chunk_segments = <<>>
    /\ audio_chunks = <<>>
    /\ chunker_pc = "idle"

UploadNext ==
    \/ UploadAudio
    \/ CreateChunks
    \/ ChunkAudioFile
    \/ StartTranscription
    \/ RunCheckChunks
    \/ RunSingleProgress
    \/ RunSingleComplete
    \/ RunSingleFail
    \/ RunTranscribeMeetingChunks
    \/ TranscriptionProgress

SpecUpload == UploadInit /\ [][UploadNext]_vars

\* The web layer with a recogniser that may never return.  Every request that
\* can be made is made and every thread that can take a step takes it.
UploadHangNext == UploadNext \/ RunSingleHangs

FairSpecUpload == UploadInit /\ [][UploadHangNext]_vars /\ WF_vars(UploadHangNext)

\* Threads call the registry for the recordings in any interleaving.
RegistryInit == Init

RegistryNext ==
    \E c \in Callers :
        \/ \E op \in {"get", "cleanup"}, m \in MeetingIds : RegistryCall(c, op, m)
        \/ RegistryAcquire(c)
        \/ GetTest(c)
        \/ GetInsert(c)
        \/ GetReturn(c)
        \/ CleanupTranscriber(c)

SpecRegistry == RegistryInit /\ [][RegistryNext]_vars

\* The registry with sessions whose loop ends.  A call that has begun runs to
\* its end; whether a call is made at all is up to the callers.
RegistryFinishNext ==
    \/ RegistryNext
    \/ \E m \in MeetingIds : ProcessQueueReturns(m)

CallInProgress ==
    \E c \in Callers :
        \/ RegistryAcquire(c)
        \/ GetTest(c)
        \/ GetInsert(c)
        \/ GetReturn(c)
        \/ CleanupTranscriber(c)

FairSpecRegistry ==
    RegistryInit /\ [][RegistryFinishNext]_vars /\ WF_vars(CallInProgress)

\* One transcribe_file call of either transcriber, answered in every way.
ApiInit == Init

ApiNext ==
    \/ \E cls \in {"openai", "assemblyai"} : TranscribeFile(cls)
    \/ \E status \in RequestOutcomes : UploadFile(status)
    \/ \E status \in RequestOutcomes : \E parsed \in BOOLEAN : PostRequest(status, parsed)
    \/ \E status \in RequestOutcomes :
          \E job \in {"completed", "processing", "error"} : PollTranscriptionStatus(status, job)

SpecApi == ApiInit /\ [][ApiNext]_vars

\* Calls of get_or_create_whisper_model, one after the other.
CacheInit == Init

CacheNext ==
    \E size \in ModelSizes : \E outcome \in LoadOutcomes :
        GetOrCreateWhisperModel(size, outcome)

SpecCache == CacheInit /\ [][CacheNext]_vars

\* The rows of a chunked recording go through their statuses one by one while
\* the progress of the recording is asked for.
ProgressInit ==
    /\ SessionInit
    /\ TextIdle
    /\ UploadIdle
    /\ RegistryIdle
    /\ ServicesIdle
    /\ file_size = ChunkThreshold + 1
    /\ audio_duration \in {ChunkDuration, MaxAudioDuration}
    /\ speech_segments = <<>>
    /\ config = DefaultConfig
    /\ chunk_segments = <<>>
    /\ audio_chunks = <<>>
    /\ chunker_pc = "input"

ProgressNext ==
    \/ ChunkAudioFile
    \/ \E n \in 1 .. MaxRows : TranscribeChunkBegins(n)
    \/ \E n \in 1 .. MaxRows : \E status \in {"completed", "failed"} :
          TranscribeChunkReturns(n, status)
    \/ TranscriptionProgress

SpecProgress == ProgressInit /\ [][ProgressNext]_vars

\* A session constructed with a limit of 1 (the default) or 2 threads whose
\* chunks end fast or slow, completed or failed.
MonitorInit ==
    /\ SessionInit
    /\ TextIdle
    /\ ChunkerIdle
    /\ UploadIdle
    /\ RegistryIdle
    /\ ApiIdle
    /\ CacheIdle
    /\ max_concurrent \in {MaxConcurrentTranscriptions, MaxConcurrentTranscriptions + 1}
    /\ slow_chunk_count = 0
    /\ performance_degraded = FALSE
    /\ in_flight = 0
    /\ started = 0
    /\ slow_ended = 0

MonitorNext ==
    \/ DispatchChunk
    \/ \E success \in BOOLEAN : \E slow \in BOOLEAN : ChunkThreadEnds(success, slow)

SpecMonitor == MonitorInit /\ [][MonitorNext]_vars

\* A step of the loop thread, and a step by which a transcribe_chunk thread
\* advances or a worker that was left behind stops.
LoopStep ==
    \/ \E p \in 0 .. Len(active_threads) : \E D \in SUBSET StaleCandidates : LoopTop(p, D)
    \/ LoopGet

ThreadStep ==
    \E a \in Attempts :
       \/ ClosureStart(a)
       \/ \E how \in Outcomes : ClosureResult(a, how)
       \/ WorkerLateReturn(a)
       \/ WorkerLateRaise(a)

\* The threads as the code schedules them: the loop thread keeps turning, the
\* bounded wait of the invoker ends, a worker that is left behind stops.
FairSpec == Spec /\ WF_vars(LoopStep) /\ WF_vars(ThreadStep)

\* ------------------------------------------------------------------ claims
IsTerminal(row) == row.status \in {"completed", "failed"}
AllTerminal == \A i \in Chunks : IsTerminal(db[i])
QueuedEntries(q, i) == {n \in 1 .. Len(q) : q[n][1] = i}

\* A _process_queue thread returns in this step.
LoopExits == LiveLoops' < LiveLoops

\* C1: with stop() never called, a step in which the dispatch loop exits is
\* taken only when chunking_complete is true, no row is pending, the in-flight
\* map is empty and every row is completed or failed; in particular the loop
\* never exits while chunking_complete is false.
C1_ExitOnlyWhenFinished ==
    [][LoopExits =>
         /\ stops = 0
         /\ chunking_complete
         /\ CountStatus(db, created, "pending") = 0
         /\ Len(active_threads) = 0
         /\ AllTerminal]_vars

\* The loop has exited after all chunks were created, one of them failed.
C1_Witness ==
    /\ loops.finished > 0
    /\ created = NumChunks
    /\ \E i \in Chunks : db[i].status = "failed"

\* mark_chunking_complete has been called, every row is completed or failed,
\* the in-flight map is empty, and a loop thread runs.
AllDoneLoopRunning ==
    /\ chunking_complete
    /\ AllTerminal
    /\ Len(active_threads) = 0
    /\ LiveLoops > 0

\* C2: once chunking is marked complete, every row is completed or failed and
\* nothing is in flight, the running loop eventually exits (the loop thread
\* and the chunk threads being scheduled fairly).
C2_LoopEventuallyExits == AllDoneLoopRunning ~> (LiveLoops = 0)

\* The loop has exited with every chunk created and completed.
C2_Witness ==
    /\ loops.finished > 0
    /\ LiveLoops = 0
    /\ created = NumChunks
    /\ \A i \in Chunks : db[i].status = "completed"

\* The watchdog takes chunk i out of the in-flight map in this step (the
\* thread of the chunk has not returned: no thread position changes).
InFlightReclaim(i) == i \in ActiveKeys /\ i \notin ActiveKeys' /\ cpc' = cpc

\* What a step does to the retry bookkeeping of the chunks.
RetryStep ==
    \A i \in ChunkIds :
       /\ retry_counts'[i] <= MaxRetries
       /\ dispatches'[i] <= MaxRetries + 1
       /\ InFlightReclaim(i) =>
            IF retry_counts[i] < MaxRetries
            THEN /\ retry_counts'[i] = retry_counts[i] + 1
                 /\ db'[i].status = "pending"
                 /\ Cardinality(QueuedEntries(queue', i)) = Cardinality(QueuedEntries(queue, i)) + 1
            ELSE /\ retry_counts'[i] = MaxRetries
                 /\ db'[i].status = "failed"
                 /\ Cardinality(QueuedEntries(queue', i)) = Cardinality(QueuedEntries(queue, i))
                 /\ dispatches[i] = MaxRetries + 1

\* C3: the watchdog requeues a stalled in-flight chunk (row pending, retry
\* counter + 1, a new queue entry) while its counter is below max_retries and
\* otherwise marks it failed without a queue entry, the chunk having been
\* dispatched max_retries + 1 times; no counter exceeds max_retries and no
\* chunk is dispatched more than max_retries + 1 times.
C3_WatchdogRetriesThenFails == [][RetryStep]_vars

\* A chunk given up by the watchdog while all its attempts are still stalled.
C3_Witness ==
    \E i \in Chunks :
       /\ db[i].status = "failed"
       /\ retry_counts[i] = MaxRetries
       /\ dispatches[i] = MaxRetries + 1
       /\ i \notin ActiveKeys
       /\ QueuedEntries(queue, i) = {}
       /\ \A k \in 0 .. MaxRetries : cpc[<<i, k>>] = "join"

\* The queue entries whose transcription was dispatched and has not finished:
\* the transcribe_chunk thread or the transcribe_worker thread is still alive.
Running == {a \in Attempts : cpc[a] # "idle" \/ wpc[a] = "run"}

\* C4: in every reachable state the number of chunk transcriptions dispatched
\* and not yet finished is at most the concurrency limit.
C4_RunningWithinLimit == Cardinality(Running) <= EffectiveMaxConcurrent

\* The rows a merge includes: recorded as completed by the session, with a text.
Included(rows, comp, n) == {i \in 0 .. (n - 1) : i \in comp /\ rows[i].text # <<>>}

\* The overlap-trimmed text of an included chunk i: trimmed against the stored
\* text of chunk i - 1 when an included chunk precedes it.
Trimmed(i, rows, inc) ==
    IF i > 0 /\ (\E j \in inc : j < i) /\ rows[i - 1].text # <<>>
    THEN RemoveOverlapText(rows[i - 1].text, rows[i].text, EndTime(i - 1) - StartTime(i))
    ELSE rows[i].text

RECURSIVE JoinAscending(_, _, _)
JoinAscending(S, rows, inc) ==
    IF S = {} THEN <<>>
    ELSE LET m == CHOOSE x \in S : \A y \in S : x <= y
         IN  Trimmed(m, rows, inc) \o JoinAscending(S \ {m}, rows, inc)

\* C5: whenever the merged text is written, it is the join of the included
\* chunks' overlap-trimmed texts in strictly increasing chunk index order,
\* whatever the order in which the chunks completed.
C5_MergedTextInIndexOrder ==
    [][transcript'.text # transcript.text =>
         transcript'.text =
            JoinAscending(Included(db', completed_chunks', created'), db',
                          Included(db', completed_chunks', created'))]_vars

\* Chunk 0 was requeued and chunk 1 was not, and both texts are merged.
C5_Witness ==
    /\ created >= 2
    /\ retry_counts[0] = MaxRetries
    /\ retry_counts[1] = 0
    /\ transcript.text = ChunkText(0) \o DropFirst(ChunkText(1), 2)

\* The third word of the text of chunk j, which lies outside both overlap
\* windows and which no other chunk has, occurs in the text.
HasTextOf(j, text) == \E k \in 1 .. Len(text) : text[k] = ChunkText(j)[3]

ProgressInfo == ProgressPercentage(CountStatus(db, created, "completed"), created)

\* C7: while the set of chunks stays the same, neither Transcript.progress nor
\* the percentage of get_progress_info decreases in any step.
C7_ProgressNeverDecreases ==
    [][created' = created =>
         /\ transcript'.progress >= transcript.progress
         /\ ProgressInfo' >= ProgressInfo]_vars

NewlyFailed(i) == db[i].status # "failed" /\ db'[i].status = "failed"
IsPrefixOf(s, t) == Len(s) <= Len(t) /\ SubSeq(t, 1, Len(s)) = s

\* C8: a step in which a chunk becomes failed stops no loop thread and does
\* not set should_stop, leaves every queue entry in its place, and leaves the
\* row of every other chunk as it is, unless the same watchdog pass requeues
\* that chunk (its status pending, its text kept).
C8_FailureIsLocal ==
    [][(\E i \in Chunks : NewlyFailed(i)) =>
         /\ loops'.top + loops'.get = LiveLoops
         /\ should_stop' = should_stop
         /\ IsPrefixOf(queue, queue')
         /\ \A j \in Chunks :
               \/ NewlyFailed(j)
               \/ db'[j] = db[j]
               \/ /\ InFlightReclaim(j) \/ db[j].status = "processing"
                  /\ reclaims' > reclaims
                  /\ db'[j] = [db[j] EXCEPT !.status = "pending",
                                             !.error = RetryAfterTimeout]]_vars

\* A chunk has failed, the loop runs and another chunk waits in the queue.
C8_Witness ==
    /\ LiveLoops > 0
    /\ ~should_stop
    /\ \E i \in Chunks : /\ db[i].status = "failed"
                         /\ \E n \in 1 .. Len(queue) : queue[n][1] # i

\* transcribe_chunk of entry a returns in this step with its worker still
\* running: transcribe_audio_with_timeout reported timed_out.
InvokerTimesOut(a) == cpc[a] = "join" /\ cpc'[a] = "idle" /\ wpc'[a] = "run"

\* C9: when the invoker times out on a chunk whose retry counter is below
\* max_retries, the chunk goes back to pending and into the queue.
C9_TimeoutIsRetried ==
    [][\A a \in Attempts :
          (InvokerTimesOut(a) /\ retry_counts[a[1]] < MaxRetries)
             => /\ db'[a[1]].status = "pending"
                /\ QueuedEntries(queue', a[1]) # {}]_vars

\* A step of the worker of entry a, left behind by the timed-out wait, that
\* changes the row of its chunk (a save of its object, or the except branch).
AbandonedWorkerWrites(a) ==
    /\ cpc[a] = "idle" /\ wpc[a] = "run"
    /\ cpc' = cpc /\ reclaims' = reclaims /\ created' = created
    /\ db'[a[1]] # db[a[1]]
    /\ db'[a[1]] \in {obj[a], [obj[a] EXCEPT !.status = "failed", !.error = FailureMessage]}

\* C10: what a worker does after the invoker reported timed_out never changes
\* the stored text of the chunk and never turns a failed row into another status.
C10_LateWorkerChangesNothing ==
    [][\A a \in Attempts :
          AbandonedWorkerWrites(a)
             => /\ db'[a[1]].text = db[a[1]].text
                /\ db[a[1]].status = "failed" => db'[a[1]].status = "failed"]_vars

\* The session has run to its end: the loop has returned and no thread of the
\* session, no worker and no queue entry is left.
SessionQuiescent ==
    /\ loops.finished > 0
    /\ LiveLoops = 0
    /\ Running = {}
    /\ queue = <<>>

\* C11: once segmentation is complete and every chunk is terminal with at
\* least one completed, the Transcript status becomes completed; stated for
\* the session that has run to its end, after which nothing changes any more.
C11_SomeCompletedGivesCompleted ==
    (/\ SessionQuiescent
     /\ chunking_complete
     /\ AllTerminal
     /\ \E i \in Chunks : db[i].status = "completed")
       => transcript.status = "completed"

\* C12: once segmentation is complete and every chunk has ended failed, the
\* Transcript status is failed; stated for the session that has run to its end.
C12_AllFailedGivesFailed ==
    (/\ SessionQuiescent
     /\ chunking_complete
     /\ created > 0
     /\ \A i \in Chunks : db[i].status = "failed")
       => transcript.status = "failed"

\* reassemble_transcript has returned for the two chunks of the example:
\* "hello there friends" (0-10 s) and "there friends how are you" (8-20 s).
ExampleReassembled ==
    /\ text_pc = "reassembled"
    /\ previous_text = HelloThereFriends
    /\ current_text = ThereFriendsHowAreYou
    /\ overlap_duration = 20

\* C13 as stated: reassembling the two chunks of the example yields
\* "hello there friends how are you".
C13_ExampleIsTrimmed ==
    ExampleReassembled => result = <<11, 12, 13, 14, 15, 16>>

\* C13 as the code has it: a text of fewer than five words on either side is
\* never trimmed, so the example yields "hello there friends there friends how
\* are you"; with the five-word first text "well now hello there friends" the
\* two repeated words are removed from the second chunk.
C13_ShortTextIsNotTrimmed ==
    text_pc = "reassembled" =>
       /\ (Len(previous_text) < MinWordsForOverlap \/ Len(current_text) < MinWordsForOverlap)
             => result = previous_text \o current_text
       /\ (/\ previous_text = WellNowHelloThereFriends
           /\ current_text = ThereFriendsHowAreYou
           /\ overlap_duration = 20)
             => result = <<17, 18, 11, 12, 13, 14, 15, 16>>

\* The example has been reassembled, the repeated words still in the text.
C13_Witness ==
    /\ ExampleReassembled
    /\ result = <<11, 12, 13, 12, 13, 14, 15, 16>>

\* C14: trimming the text that remove_overlap_text returned once more against
\* the same previous text and overlap returns it unchanged.
C14_TrimIsIdempotent ==
    text_pc = "retrimmed" =>
       result = RemoveOverlapText(previous_text, current_text, overlap_duration)

\* C15: for a duration D > 0, the windows create_time_based_chunks returns
\* start at 0, each starts no later than the one before it ends, the last ends
\* at min(D, max_duration), every window but the last has length
\* chunk_duration, and consecutive windows overlap by overlap_duration.
C15_TimeBasedWindowsCover ==
    (chunker_pc = "time_based" /\ audio_duration > 0) =>
       LET w == chunk_segments
           n == Len(chunk_segments)
       IN  /\ n >= 1
           /\ w[1][1] = 0
           /\ w[n][2] = Min2(audio_duration, config.max_duration)
           /\ \A k \in 1 .. (n - 1) :
                 /\ w[k + 1][1] <= w[k][2]
                 /\ w[k][2] - w[k][1] = config.chunk_duration
                 /\ w[k][2] - w[k + 1][1] = config.overlap_duration

C18_CompletedRowHasPositiveWindow ==
    \A n \in 1 .. Len(audio_chunks) :
       audio_chunks[n].status = "completed" =>
          /\ 0 <= audio_chunks[n].start_time
          /\ audio_chunks[n].start_time < audio_chunks[n].end_time
          /\ audio_chunks[n].duration = audio_chunks[n].end_time - audio_chunks[n].start_time


\* A recording at or below the chunking threshold of should_chunk_file.
SmallFile == file_size <= ChunkThreshold

\* C19: for a recording whose size is at or below the chunking threshold, no
\* upload, chunk_audio_file or start_transcription step creates a chunk row,
\* the run never takes the chunk path, the Transcript becomes completed only
\* at the end of the single-unit path with progress 100, and a progress
\* response carries the status and progress of the Transcript row itself.
C19_SmallFileSingleUnitPath ==
    [][SmallFile =>
          /\ audio_chunks' = <<>>
          /\ run_transcription'.pc # "chunks"
          /\ (transcript'.status = "completed" /\ transcript.status # "completed")
                => /\ run_transcription.pc = "single"
                   /\ run_transcription.stage = Len(SingleProgress)
                   /\ transcript'.progress = 100
          /\ (transcript' # transcript)
                => \/ run_transcription.pc = "single"
                   \/ run_transcription'.pc = "check"
          /\ (progress_response' # progress_response)
                => progress_response' = [progress |-> transcript.progress,
                                         status |-> transcript.status,
                                         is_chunked |-> FALSE]]_vars

\* A recording of exactly the threshold size was skipped by chunk_audio_file,
\* completed on the single-unit path, and its progress was read.
C19_Witness ==
    /\ file_size = ChunkThreshold
    /\ chunker_pc = "skipped"
    /\ audio_chunks = <<>>
    /\ transcript.status = "completed"
    /\ transcript.progress = 100
    /\ progress_response = [progress |-> 100, status |-> "completed", is_chunked |-> FALSE]

\* The sessions of a recording that were constructed and not stopped.
LiveSessions(m) == {t \in sessions : t.meeting_id = m /\ ~t.stopped}

\* C20: in any interleaving of get_or_create_transcriber calls, the calls for
\* one recording id with no cleanup of that id between them return the same
\* session object, at most one session of a recording id exists unstopped and
\* it is the one the registry holds, and the sessions returned for different
\* recording ids are different objects.
C20_OneSessionPerRecording ==
    /\ \A r1, r2 \in returned :
          /\ (r1.meeting_id = r2.meeting_id /\ r1.cleanups = r2.cleanups)
                => r1.object = r2.object
          /\ r1.meeting_id # r2.meeting_id => r1.object # r2.object
    /\ \A r \in returned : r.object # 0
    /\ \A m \in MeetingIds :
          /\ Cardinality(LiveSessions(m)) <= 1
          /\ \A t \in LiveSessions(m) : active_transcribers[m] = t.object

\* Three calls have returned, two of them for one recording and one for the
\* other, while a further call for the first recording is inside the lock and
\* finds the session present.
C20_Witness ==
    /\ \E r1, r2 \in returned : r1.meeting_id # r2.meeting_id
    /\ \E c \in Callers :
          /\ caller[c].pc = "return"
          /\ \E r \in returned : r.meeting_id = caller[c].meeting_id
                                   /\ r.object = active_transcribers[r.meeting_id]
    /\ \E c \in Callers : caller[c].pc = "lock" /\ caller[c].op = "get"
    /\ Cardinality(sessions) = Cardinality(MeetingIds)

\* C21: once stop() has set should_stop, the loop takes no chunk from the
\* queue: no step made while should_stop holds hands a chunk to a thread.
C21_NoDispatchAfterStop ==
    [][should_stop => dispatches' = dispatches]_vars

\* The transcribe_worker threads running on an object of chunk i: each saves
\* its object to the row with every progress update, and its transcribe_chunk
\* thread saves the same object.
Writers(i) == {a \in Attempts : a[1] = i /\ wpc[a] = "run"}

\* C22: every chunk row has at most one writer at any time: the attempts of a
\* chunk whose workers are running and saving the row are never two.
C22_AtMostOneWriter ==
    \A i \in ChunkIds : Cardinality(Writers(i)) <= 1

\* Some request of the call has been answered 400, 401 or 403.
RefusedBefore == \E n \in 1 .. Len(responses) : NonRetriable(responses[n].status)

\* C23: a transcribe_file call makes at most max_retries + 1 attempts, and
\* once a request of the call was answered 400, 401 or 403 it makes no
\* further request.
C23_NoRequestAfterRefusal ==
    [][/\ attempt' <= ApiMaxRetries
       /\ RefusedBefore => responses' = responses]_vars

\* The chunks whose text is part of the text.
Contributing(text) == {j \in ChunkIds : HasTextOf(j, text)}

\* C24: text merged into Transcript.text is never removed: in every step the
\* chunks contributing to Transcript.text before it contribute after it.
C24_MergedTextIsKept ==
    [][Contributing(transcript.text) \subseteq Contributing(transcript'.text)]_vars

\* The call made in this step, by its model size.
CallOf(size) == model_calls' = model_calls + 1 /\ last_call'.model_size = size

\* C25: after any sequence of get_or_create_whisper_model calls the cache has
\* an entry for a model size exactly when a load of that size has succeeded;
\* a call for a cached size returns the cached instance, constructs nothing
\* and leaves the cache alone; a load that fails raises and leaves no entry
\* for its size.
C25_CacheHoldsExactlyLoadedModels ==
    [][/\ \A size \in ModelSizes : (model_cache'[size] # 0) <=> (size \in loaded')
       /\ \A size \in ModelSizes :
             CallOf(size) =>
                /\ model_cache[size] # 0 =>
                      /\ last_call'.result = model_cache[size]
                      /\ whisper_models' = whisper_models
                      /\ model_cache' = model_cache
                /\ last_call'.result = 0 => model_cache'[size] = 0
                /\ last_call'.result # 0 => last_call'.result = model_cache'[size]]_vars

\* A cached model was returned again by the last call, after one
\* construction of it, and the load of another size has failed.
C25_Witness ==
    /\ last_call.model_size = "thonburian-medium"
    /\ last_call.result # 0
    /\ model_calls = MaxModelCalls
    /\ Cardinality({n \in 1 .. Len(whisper_models) : whisper_models[n] = "thonburian-medium"}) = 1
    /\ Len(whisper_models) = 2
    /\ model_cache["base"] = 0
    /\ \E n \in 1 .. Len(whisper_models) : whisper_models[n] = "base"

\* The overall status as the claim derives it from the rows of a recording
\* whose segmentation has finished.
DerivedStatus(rows) ==
    IF \A n \in 1 .. Len(rows) : rows[n].status = "failed" THEN "failed"
    ELSE IF \A n \in 1 .. Len(rows) : rows[n].status = "completed" THEN "completed"
    ELSE IF \E n \in 1 .. Len(rows) : rows[n].status # "pending" THEN "processing"
    ELSE "pending"

\* C26: for every combination of chunk statuses of a recording with at least
\* one chunk, the status reported is failed iff every chunk is failed,
\* completed iff every chunk is completed, otherwise processing if any chunk
\* has left pending, and pending otherwise.
C26_OverallStatusDerivation ==
    [][(progress_response' # progress_response /\ audio_chunks # <<>>)
          => progress_response'.status = DerivedStatus(audio_chunks)]_vars

\* A chunk is handed to a thread in this step.
Dispatched == dispatches' # dispatches

\* C27: chunks are dispatched in the order they were enqueued: every step
\* leaves the queue alone, or puts entries behind those already waiting (a
\* new chunk, or the chunks the watchdog retries), or takes the entry at the
\* front and dispatches it; no entry overtakes one that was queued before it.
C27_DispatchIsFifo ==
    [][\/ IsPrefixOf(queue, queue') /\ ~Dispatched
       \/ /\ queue # <<>>
          /\ queue' = Tail(queue)
          /\ dispatches' = [dispatches EXCEPT ![Head(queue)[1]] = @ + 1]
          /\ cpc'[Head(queue)] = "start"]_vars

\* Chunk 1 was waiting when the watchdog requeued chunk 0, and chunk 1 has
\* been dispatched ahead of the retry, which is now at the front.
C27_Witness ==
    /\ queue = <<<<0, 1>>>>
    /\ retry_counts[0] = 1
    /\ cpc[<<1, 0>>] = "start"
    /\ dispatches[0] = 1
    /\ dispatches[1] = 1

\* round(overlapSeconds * 2.5), the overlap given in tenths of a second.
RoundedOverlapWords(overlapTenths) == (overlapTenths * 25 + 50) \div 100

\* The reference operator of the specification.
ReferenceRemoveOverlap(prev, cur, overlapTenths) ==
    IF Len(prev) < 5 \/ Len(cur) < 5 \/ overlapTenths <= 0 THEN cur
    ELSE LET window == Min3(RoundedOverlapWords(overlapTenths) + 5,
                            Len(prev) \div 2, Len(cur) \div 2)
             hits == {i \in 1 .. window : OverlapMatchAt(prev, cur, i)}
         IN  IF hits = {} THEN cur
             ELSE DropFirst(cur, CHOOSE i \in hits : \A j \in hits : j <= i)

\* C28: for all texts and overlaps remove_overlap_text returns what the
\* reference operator returns: the current text unchanged when either text
\* has fewer than 5 words or the overlap is not positive, else the current
\* text without its first i words, i the largest length within
\* min(round(overlap * 2.5) + 5, len(prev) // 2, len(cur) // 2) at which the
\* end of the previous text matches the start of the current one.
C28_EqualsReferenceOperator ==
    text_pc = "trimmed" =>
       result = ReferenceRemoveOverlap(previous_text, current_text, overlap_duration)

C30_NoWindowPastMaxDuration ==
    (chunker_pc = "time_based" /\ audio_duration > config.max_duration) =>
       \A k \in 1 .. Len(chunk_segments) : chunk_segments[k][2] <= config.max_duration

\* The start of the window that would follow the window w.
NextStartAfter(w) == w[1] + config.chunk_duration - config.overlap_duration

\* C31: in create_time_based_chunks with D > chunk_duration and
\* min_chunk_duration <= chunk_duration no window is shorter than
\* min_chunk_duration: a window is emitted only while the audio remaining at
\* its start is at least min_chunk_duration, and when less remains after the
\* last window, that window ends at D.
C31_NoWindowShorterThanMin ==
    (/\ chunker_pc = "time_based"
     /\ audio_duration > config.chunk_duration
     /\ config.min_chunk_duration <= config.chunk_duration) =>
       LET w == chunk_segments
           n == Len(chunk_segments)
       IN  /\ n >= 1
           /\ \A k \in 1 .. n : w[k][2] - w[k][1] >= config.min_chunk_duration
           /\ \A k \in 1 .. n : audio_duration - w[k][1] >= config.min_chunk_duration
           /\ audio_duration - NextStartAfter(w[n]) < config.min_chunk_duration
                 => w[n][2] = audio_duration
           /\ audio_duration - NextStartAfter(w[n]) >= config.min_chunk_duration
                 => n = config.max_chunks

\* A call in which the last window was extended: it is longer than
\* chunk_duration and ends at D.
C31_Witness ==
    /\ chunker_pc = "time_based"
    /\ audio_duration > config.chunk_duration
    /\ Len(chunk_segments) >= 2
    /\ LET last == chunk_segments[Len(chunk_segments)]
       IN  /\ last[2] = audio_duration
           /\ last[2] - last[1] > config.chunk_duration

\* C32: a call of _update_progressive_transcript that raises inside leaves
\* the Transcript row (text, status, progress) as it was, the chunk whose
\* completion triggered it stays completed and recorded, its in-flight entry
\* is removed, and the loop and the queue are as before.
C32_FailedUpdateLeavesTranscript ==
    [][update_failures' > update_failures =>
          /\ transcript' = transcript
          /\ \E a \in Attempts :
                /\ cpc[a] = "join" /\ cpc'[a] = "idle"
                /\ db'[a[1]].status = "completed"
                /\ a[1] \in completed_chunks'
                /\ a[1] \notin ActiveKeys'
          /\ loops' = loops /\ queue' = queue
          /\ should_stop' = should_stop /\ is_running' = is_running]_vars

\* The update for chunk 0 raised, the row has no text, and the loop has
\* dispatched chunk 1 since.
C32_Witness ==
    /\ update_failures > 0
    /\ db[0].status = "completed"
    /\ 0 \in completed_chunks
    /\ transcript.text = <<>>
    /\ transcript.status = "pending"
    /\ cpc[<<1, 0>>] = "join"

\* C33: in every reachable state a chunk row has a non-empty error_message
\* only if its status is failed.
C33_ErrorOnlyWhenFailed ==
    \A i \in Chunks : db[i].error # NoError => db[i].status = "failed"

\* The registry holds for recording m a session whose loop has ended.
FinishedRegistered(m) ==
    \E t \in sessions : t.finished /\ active_transcribers[m] = t.object

\* C34: a session whose loop has finished is eventually removed from the
\* registry, without any call of cleanup_transcriber being required.
C34_FinishedSessionIsRemoved ==
    \A m \in MeetingIds : FinishedRegistered(m) ~> ~FinishedRegistered(m)

\* C35: on the non-chunked path a transcription call that never returns is
\* cut off by a timeout: the Transcript eventually reaches failed instead of
\* staying in processing.
C35_SingleUnitTimesOut ==
    (run_transcription.pc = "hung") ~> (transcript.status = "failed")

\* C36: at most one _process_queue thread of the session is alive at any time.
C36_AtMostOneLoop == LiveLoops <= 1

\* C37: a chunk row that is completed or failed keeps its status and its
\* transcript text in every later step.
C37_TerminalStatusIsAbsorbing ==
    [][\A i \in Chunks :
          IsTerminal(db[i]) => /\ db'[i].status = db[i].status
                               /\ db'[i].text = db[i].text]_vars

\* C38: when every chunk of the recording has completed at its first attempt
\* and the session has run to its end (after which no step is left), the
\* Transcript has status completed and progress 100, whether segmentation was
\* marked complete before or after the last completion.
C38_AllCompletedGivesCompleted ==
    (/\ SessionQuiescent
     /\ chunking_complete
     /\ created > 0
     /\ reclaims = 0
     /\ \A i \in Chunks : db[i].status = "completed" /\ dispatches[i] = 1)
       => (transcript.status = "completed" /\ transcript.progress = 100)

\* C39: for the chunks that completed, with their texts and windows, the text
\* _update_progressive_transcript builds once all of them are recorded equals
\* the text reassemble_transcript returns.
C39_ProgressiveEqualsBatch ==
    text_pc = "progressive" => result = ReassembleTranscript(ThreeChunks)

\* The attempts that have an entry in the in-flight map.
InFlight(act) == {act[n] : n \in 1 .. Len(act)}

\* C40: the in-flight entry of an attempt is removed only by the finally block
\* of that attempt's own thread or by the watchdog: the late finish of an
\* earlier attempt of the same chunk index leaves the entry of the retry.
C40_EntryRemovedOnlyByOwner ==
    [][\A a \in InFlight(active_threads) :
          a \notin InFlight(active_threads')
             => \/ cpc[a] = "join" /\ cpc'[a] = "idle"
                \/ cpc' = cpc /\ reclaims' > reclaims]_vars

====
